---------------------------- MODULE Spec2Model ----------------------------
(***************************************************************************)
(* Request governance and answer delivery of the chat backend              *)
(* (src/lambda.js, the retrieval version, lines 626-1459).                 *)
(*                                                                         *)
(* The process is one JavaScript event loop: a handler runs without        *)
(* interruption until it awaits an external call, and the continuations of *)
(* settled promises (a return or a throw travelling up through the async   *)
(* callers, their finally and catch blocks) run before the next request is *)
(* taken up.  Every action below is one such run.  Time (msNow) advances   *)
(* between runs.                                                           *)
(***************************************************************************)
EXTENDS Integers, Sequences, FiniteSets, TLC

\* ------------------------------------------------------------ constants
RL_WINDOW_MS == 60 * 1000
RL_LIMIT == 12
SPAM_WINDOW_MS == 5 * 60 * 1000
SPAM_LIMIT == 30
SPAM_BLOCK_MS == 3 * 60 * 1000
MIN_INTERVAL_MS == 650
TOO_FAST_BLOCK_MS == 3000
MAX_EMBED_CHUNK_CHARS == 1400
MAX_MENU_CHUNK == 15000
RETRIEVAL_TOP_K_DEFAULT == 4
RETRIEVAL_TOP_K_BROAD == 7
CACHE_TTL == 6 * 60 * 60 * 1000

\* ------------------------------------------------------------ bounds
\* msNow() when the process starts (any positive number of milliseconds).
StartTime == 1000
\* Submissions with a message one governance run handles.
MaxGovSubmits == 5
\* Submissions with a message one pipeline run handles.
MaxSubmits == 4
\* Submissions with a message one run around the cache expiry handles.
MaxCacheSubmits == 2
\* Ticks of MIN_INTERVAL_MS one pipeline run, or one run around the cache
\* expiry, takes.
MainTicks == 2
\* The chunks chunkMenuForEmbedding makes of the corpus.
MenuChunks == 2
\* The intent prototypes of getIntentEmbeddings.
IntentCount == 4
\* Submissions of one run of two first requests on a cold process.
MaxEmbedSubmits == 2
\* Submissions of one run after the entries of the first request expired.
MaxEvictSubmits == 2
\* Lines of a section text given to chunkSection.
MaxLines == 3
\* Calls of the spam guard in one run of calls.
MaxSpamCalls == 33
\* Chunks of the one marker section of an index a context is built from.
MaxMarked == 5
\* Chunks of an index a selection is made from.
MaxChunks == 8
\* Characters of a corpus text given to splitSections.
MaxText == 4
\* Submissions of one run that warms the embeddings up.
MaxWarmSubmits == 2
\* Submissions of one run through the governance stages.
MaxStageSubmits == 3
\* Network reads one event stream arrives in.
MaxReads == 2
\* Chunk vectors of a corpus given to the ranking.
MaxCorpus == 3

Keys      == {"k1", "k2"}
Slots     == {1, 2}
CacheKeys == {"q1"}
Modes     == {"buffered", "stream"}

\* What the generation capability may yield: a sequence of text fragments
\* (streaming), whose concatenation is the complete answer (buffered).
GenOutputs == { << <<"a">>, <<"b", " ">> >>, << <<" ">>, <<>>, <<"c">> >> }

\* ------------------------------------------------------------ helpers
Max(a, b) == IF a >= b THEN a ELSE b

\* Math.ceil(a / b) for b > 0
Ceil(a, b) == -((-a) \div b)

\* A JavaScript Map as a function on the set of its keys.
EmptyMap == [x \in {} |-> 0]
Has(m, k) == k \in DOMAIN m
Put(m, k, v) == [x \in (DOMAIN m) \cup {k} |-> IF x = k THEN v ELSE m[x]]

\* White space and line terminators, as String.prototype.trim strips them.
IsSpace(c) == c \in {" ", "\n"}

RECURSIVE TrimStart(_)
TrimStart(s) ==
  IF s # <<>> /\ IsSpace(Head(s)) THEN TrimStart(Tail(s)) ELSE s

RECURSIVE TrimEnd(_)
TrimEnd(s) ==
  IF s # <<>> /\ IsSpace(s[Len(s)]) THEN TrimEnd(SubSeq(s, 1, Len(s) - 1)) ELSE s

\* String.prototype.trim
Trim(s) == TrimEnd(TrimStart(s))

RECURSIVE Concat(_)
Concat(parts) == IF parts = <<>> THEN <<>> ELSE Head(parts) \o Concat(Tail(parts))


\* ------------------------------------------------------------ CorpusIndexer
\* Strings are sequences of characters.  n times the character c.
Rep(n, c) == [i \in 1..n |-> c]

\* Array.prototype.join("\n")
RECURSIVE JoinLines(_)
JoinLines(ls) ==
  IF ls = <<>> THEN <<>>
  ELSE IF Len(ls) = 1 THEN ls[1]
  ELSE ls[1] \o <<"\n">> \o JoinLines(Tail(ls))

\* String.prototype.split(/\r?\n/) of a text without carriage returns: the
\* pieces between the line feeds, one more than there are line feeds.
Split(text) ==
  LET nls == {i \in 1..Len(text) : text[i] = "\n"}
      nth(k) == IF k = 0 THEN 0
                ELSE IF k > Cardinality(nls) THEN Len(text) + 1
                ELSE CHOOSE p \in nls : Cardinality({q \in nls : q < p}) = k - 1
  IN  [j \in 1..(Cardinality(nls) + 1) |->
         SubSeq(text, nth(j - 1) + 1, nth(j) - 1)]

\* The loop of chunkSection over the lines left, with buf and the chunks
\* pushed so far; after the last line the trimmed buf is pushed unless empty.
RECURSIVE chunkLoop(_, _, _)
chunkLoop(lines, buf, chunks) ==
  IF lines = <<>>
  THEN IF Trim(buf) # <<>> THEN Append(chunks, Trim(buf)) ELSE chunks
  ELSE LET line == Head(lines)
           next == IF buf # <<>> THEN buf \o <<"\n">> \o line ELSE line
       IN  IF Len(next) > MAX_EMBED_CHUNK_CHARS /\ buf # <<>>
           THEN chunkLoop(Tail(lines), line, Append(chunks, Trim(buf)))
           ELSE chunkLoop(Tail(lines), next, chunks)

\* History of the loop of chunkSection: the value of buf at every push.
RECURSIVE chunkBufs(_, _, _)
chunkBufs(lines, buf, bufs) ==
  IF lines = <<>>
  THEN IF Trim(buf) # <<>> THEN Append(bufs, buf) ELSE bufs
  ELSE LET line == Head(lines)
           next == IF buf # <<>> THEN buf \o <<"\n">> \o line ELSE line
       IN  IF Len(next) > MAX_EMBED_CHUNK_CHARS /\ buf # <<>>
           THEN chunkBufs(Tail(lines), line, Append(bufs, buf))
           ELSE chunkBufs(Tail(lines), next, bufs)

\* chunkSection: the texts of the chunks, in the order of their ids.
chunkSection(text) == chunkLoop(Split(text), <<>>, <<>>)

\* ------------------------------------------------------------ Retriever
\* Vectors have integer components and norms that are integers, so that
\* Math.sqrt and the products are exact; a similarity is the fraction
\* num / den with den > 0, which the division rounds to the nearest double,
\* different fractions of these sizes to different doubles.
Dot(a, b) ==
  LET RECURSIVE sum(_)
      sum(i) == IF i = 0 THEN 0 ELSE a[i] * b[i] + sum(i - 1)
  IN  sum(Len(a))

\* Math.sqrt of a square
Sqrt(n) == CHOOSE r \in 0..n : r * r = n

\* cosineSimilarity without the division by the norms.
cosineSimilarityDot(a, b) == [num |-> Dot(a, b), den |-> 1]

\* cosineSimilarity: dot / (Math.sqrt(normA) * Math.sqrt(normB) || 1)
cosineSimilarity(a, b) ==
  LET d == Sqrt(Dot(a, a)) * Sqrt(Dot(b, b))
  IN  [num |-> Dot(a, b), den |-> IF d = 0 THEN 1 ELSE d]

\* x > y and x = y for similarities
Greater(x, y) == x.num * y.den > y.num * x.den
Same(x, y) == x.num * y.den = y.num * x.den

\* buildMenuContextForQuery: the similarity of every chunk to the query, and
\* the indices of the chunks as scored.sort((a, b) => b.score - a.score)
\* leaves them: by falling score, equal scores in the order of the corpus
\* (Array.prototype.sort is stable).
Ranking(query, corpus) ==
  LET score == [i \in 1..Len(corpus) |-> cosineSimilarity(query, corpus[i])]
      ahead(i) == {j \in 1..Len(corpus) :
                     \/ Greater(score[j], score[i])
                     \/ Same(score[j], score[i]) /\ j < i}
  IN  [score |-> score,
       order |-> [p \in 1..Len(corpus) |->
                    CHOOSE i \in 1..Len(corpus) : Cardinality(ahead(i)) = p - 1]]

\* The labels of the intent prototypes, in the order of getIntentEmbeddings.
IntentKeys == <<"recommendation", "cheapest", "comparison", "general">>

\* The loop of detectIntent replacing best by a prototype of equal score.
RECURSIVE detectLoopLast(_, _, _, _)
detectLoopLast(queryEmbedding, embeddings, i, best) ==
  IF i > Len(embeddings) THEN best
  ELSE LET score == cosineSimilarity(queryEmbedding, embeddings[i])
       IN  detectLoopLast(queryEmbedding, embeddings, i + 1,
                          IF ~Greater(best.score, score)
                          THEN [key |-> IntentKeys[i], score |-> score]
                          ELSE best)

\* detectIntent: the loop over the prototypes from i on, with best so far.
RECURSIVE detectLoop(_, _, _, _)
detectLoop(queryEmbedding, embeddings, i, best) ==
  IF i > Len(embeddings) THEN best
  ELSE LET score == cosineSimilarity(queryEmbedding, embeddings[i])
       IN  detectLoop(queryEmbedding, embeddings, i + 1,
                      IF Greater(score, best.score)
                      THEN [key |-> IntentKeys[i], score |-> score]
                      ELSE best)

\* detectIntent, given the embeddings of the prototypes.
detectIntent(queryEmbedding, embeddings) ==
  detectLoop(queryEmbedding, embeddings, 1,
             [key |-> "general", score |-> [num |-> -1, den |-> 1]])

\* topK of every intent being RETRIEVAL_TOP_K_DEFAULT.
topKDefault(intent) == RETRIEVAL_TOP_K_DEFAULT

\* buildMenuContextForQuery: the number of chunks to select.
topK(intent) ==
  IF intent = "cheapest" \/ intent = "comparison"
  THEN RETRIEVAL_TOP_K_BROAD
  ELSE RETRIEVAL_TOP_K_DEFAULT

\* buildMenuContextForQuery: scored.slice(0, topK), as indices of chunks.
Selected(query, embeddings, intent) ==
  LET order == Ranking(query, embeddings).order
      k == IF topK(intent) < Len(order) THEN topK(intent) ELSE Len(order)
  IN  SubSeq(order, 1, k)

\* String.prototype.toUpperCase on the letters of the section keys.
LowerCase == <<"i", "n", "t", "r", "o", "f", "e", "m", "z">>
UpperCase == <<"I", "N", "T", "R", "O", "F", "E", "M", "Z">>
toUpperCase(str) ==
  [i \in 1..Len(str) |->
     IF \E k \in 1..Len(LowerCase) : LowerCase[k] = str[i]
     THEN UpperCase[CHOOSE k \in 1..Len(LowerCase) : LowerCase[k] = str[i]]
     ELSE str[i]]

\* `### ${chunk.key.toUpperCase()} (${chunk.id})\n${chunk.text}`
Block(chunk) ==
  <<"#", "#", "#", " ">> \o toUpperCase(chunk.key) \o <<" ", "(">>
    \o chunk.id \o <<")", "\n">> \o chunk.text

\* Array.prototype.join("\n\n")
RECURSIVE JoinBlocks(_)
JoinBlocks(blocks) ==
  IF blocks = <<>> THEN <<>>
  ELSE IF Len(blocks) = 1 THEN blocks[1]
  ELSE blocks[1] \o <<"\n", "\n">> \o JoinBlocks(Tail(blocks))

\* chunks.filter((c) => c.key === key).slice(0, 1), as indices of chunks.
FirstOfKey(chunks, key) ==
  LET is == {i \in 1..Len(chunks) : chunks[i].key = key}
  IN  IF is = {} THEN <<>>
      ELSE << CHOOSE i \in is : \A j \in is : i <= j >>

\* The Map unique: the indices in idxs whose chunk id no earlier one has.
RECURSIVE UniqueById(_, _, _)
UniqueById(chunks, idxs, seen) ==
  IF idxs = <<>> THEN <<>>
  ELSE IF chunks[Head(idxs)].id \in seen
       THEN UniqueById(chunks, Tail(idxs), seen)
       ELSE <<Head(idxs)>>
              \o UniqueById(chunks, Tail(idxs), seen \cup {chunks[Head(idxs)].id})

\* The context of the chunks idxs, in that order: the blocks of those of
\* different id joined, cut at MAX_MENU_CHUNK.  History: ids, the ids of
\* the blocks joined.
ContextOf(chunks, idxs) ==
  LET unique == UniqueById(chunks, idxs, {})
      text == JoinBlocks([p \in 1..Len(unique) |-> Block(chunks[unique[p]])])
  IN  [ids |-> [p \in 1..Len(unique) |-> chunks[unique[p]].id],
       menuContext |->
         SubSeq(text, 1, IF Len(text) < MAX_MENU_CHUNK
                         THEN Len(text) ELSE MAX_MENU_CHUNK)]

\* The context with the selected chunks before the intro and the footer.
menuContextSelectedFirst(chunks, selected) ==
  ContextOf(chunks, selected \o FirstOfKey(chunks, "intro")
                             \o FirstOfKey(chunks, "footer"))

\* buildMenuContextForQuery: the context made of [...intro, ...footer,
\* ...selected], where selected are indices of chunks.
menuContext(chunks, selected) ==
  ContextOf(chunks, FirstOfKey(chunks, "intro") \o FirstOfKey(chunks, "footer")
                      \o selected)

\* ------------------------------------------------------------ ResponseCache key
VALID_CATEGORIES ==
  { <<"a", "u", "t", "o">>,
    <<"f", "u", "l", "l">>,
    <<"s", "t", "a", "r", "t", "e", "r", "s", "_", "s", "o", "u", "p", "s">>,
    <<"m", "a", "i", "n", "s">>,
    <<"d", "e", "s", "s", "e", "r", "t", "s">>,
    <<"d", "r", "i", "n", "k", "s">>,
    <<"i", "n", "f", "o">> }
CategoryAuto == <<"a", "u", "t", "o">>

\* normalizeCategory
normalizeCategory(category) ==
  IF category \in VALID_CATEGORIES THEN category ELSE CategoryAuto

\* String.prototype.slice(0, n)
First(str, n) == SubSeq(str, 1, IF Len(str) < n THEN Len(str) ELSE n)

\* Array.prototype.slice(-n)
Last(arr, n) == SubSeq(arr, IF Len(arr) > n THEN Len(arr) - n + 1 ELSE 1, Len(arr))

\* h.map((x) => `${x.role}:${content.slice(0, 140)}`).join("|")
RECURSIVE hKeyOf(_)
hKeyOf(h) ==
  IF h = <<>> THEN <<>>
  ELSE Head(h).role \o <<":">> \o First(Head(h).content, 140)
         \o (IF Len(h) > 1 THEN <<"|">> ELSE <<>>) \o hKeyOf(Tail(h))

\* makeCacheKey without the category.
makeCacheKeyNoCategory(message, history, category) ==
  <<":", ":">> \o First(message, 600) \o <<":", ":">> \o hKeyOf(Last(history, 4))

\* makeCacheKey
makeCacheKey(message, history, category) ==
  normalizeCategory(category) \o <<":", ":">> \o First(message, 600)
    \o <<":", ":">> \o hKeyOf(Last(history, 4))

\* ------------------------------------------------------------ ClientIdentity
\* The least length of a clientId that makes the key.
ClientIdMinLen == 8

CidPrefix == <<"c", "i", "d", ":">>
IpPrefix == <<"i", "p", ":">>
Unknown == <<"u", "n", "k", "n", "o", "w", "n">>

\* getClientKey taking the clientId or the address as the key, as it is.
getClientKeyBare(clientId, ip) ==
  IF clientId.type = "string" /\ Len(clientId.val) >= ClientIdMinLen
  THEN clientId.val
  ELSE IF ip # <<>> THEN ip ELSE Unknown

\* getClientKey: clientId is a value of the request body (its type and, for
\* a string, its characters), ip the string getIp returns ("" for none).
getClientKey(clientId, ip) ==
  IF clientId.type = "string" /\ clientId.val # <<>>
     /\ Len(clientId.val) >= ClientIdMinLen
  THEN CidPrefix \o clientId.val
  ELSE IpPrefix \o (IF ip # <<>> THEN ip ELSE Unknown)

\* ------------------------------------------------------------ RateLimiter
\* applyRateLimitOrThrow rejecting the call that reaches the cap.
applyRateLimitAtCap(rs, key, t) ==
  LET st0 == IF Has(rs, key) THEN rs[key]
             ELSE [windowStart |-> t, count |-> 0, resetAt |-> t + RL_WINDOW_MS]
      st1 == IF t - st0.windowStart > RL_WINDOW_MS
             THEN [windowStart |-> t, count |-> 0, resetAt |-> t + RL_WINDOW_MS]
             ELSE st0
      st  == [st1 EXCEPT !.count = @ + 1]
  IN  IF st.count >= RL_LIMIT
      THEN [state |-> Put(rs, key, st), err |-> "RATE_LIMIT",
            retry |-> Max(1, Ceil(st.resetAt - t, 1000))]
      ELSE [state |-> Put(rs, key, st), err |-> "", retry |-> 0]

\* applyRateLimitOrThrow with one difference, which:
\*   "nowrite"  a call that fails does not write the state back;
\*   "nofloor"  the retry-after is not raised to 1.
applyRateLimitWith(which, rs, key, t) ==
  LET st0 == IF Has(rs, key) THEN rs[key]
             ELSE [windowStart |-> t, count |-> 0, resetAt |-> t + RL_WINDOW_MS]
      st1 == IF t - st0.windowStart > RL_WINDOW_MS
             THEN [windowStart |-> t, count |-> 0, resetAt |-> t + RL_WINDOW_MS]
             ELSE st0
      st  == [st1 EXCEPT !.count = @ + 1]
  IN  IF st.count > RL_LIMIT
      THEN [state |-> IF which = "nowrite" THEN rs ELSE Put(rs, key, st),
            err |-> "RATE_LIMIT",
            retry |-> IF which = "nofloor" THEN Ceil(st.resetAt - t, 1000)
                      ELSE Max(1, Ceil(st.resetAt - t, 1000))]
      ELSE [state |-> Put(rs, key, st), err |-> "", retry |-> 0]

applyRateLimitNoWrite(rs, key, t) == applyRateLimitWith("nowrite", rs, key, t)

applyRateLimitNoFloor(rs, key, t) == applyRateLimitWith("nofloor", rs, key, t)

\* One call of applyRateLimitOrThrow(key) at time t on the map rs:
\* the new map, the error thrown ("" when none) and its retryAfterSec.
applyRateLimitOrThrow(rs, key, t) ==
  LET st0 == IF Has(rs, key) THEN rs[key]
             ELSE [windowStart |-> t, count |-> 0, resetAt |-> t + RL_WINDOW_MS]
      st1 == IF t - st0.windowStart > RL_WINDOW_MS
             THEN [windowStart |-> t, count |-> 0, resetAt |-> t + RL_WINDOW_MS]
             ELSE st0
      st  == [st1 EXCEPT !.count = @ + 1]
  IN  IF st.count > RL_LIMIT
      THEN [state |-> Put(rs, key, st), err |-> "RATE_LIMIT",
            retry |-> Max(1, Ceil(st.resetAt - t, 1000))]
      ELSE [state |-> Put(rs, key, st), err |-> "", retry |-> 0]

\* ------------------------------------------------------------ SpamGuard
\* applySpamGuardOrThrow with one difference, which:
\*   "nocooldown"  TOO_FAST does not set blockedUntil;
\*   "recount"     a submission during a block is counted;
\*   "extend"      a submission during a block starts the block anew;
\*   "countfirst"  the window count is applied before the minimum interval;
\*   "blockreset"  the window count starts anew when a window block starts;
\*   "nowindow"    the window is never renewed.
applySpamGuardWith(which, ss, key, t) ==
  LET st0 == IF Has(ss, key) THEN ss[key]
             ELSE [windowStart |-> t, count |-> 0, blockedUntil |-> 0, lastAt |-> 0]
  IN  IF st0.blockedUntil # 0 /\ t < st0.blockedUntil
      THEN [state |-> IF which = "recount"
                      THEN Put(ss, key, [st0 EXCEPT !.count = @ + 1])
                      ELSE IF which = "extend"
                      THEN Put(ss, key, [st0 EXCEPT !.blockedUntil = t + TOO_FAST_BLOCK_MS])
                      ELSE ss,
            err |-> "COOLDOWN",
            retry |-> Max(1, Ceil(st0.blockedUntil - t, 1000))]
      ELSE IF which # "countfirst" /\ st0.lastAt # 0
              /\ t - st0.lastAt < MIN_INTERVAL_MS
      THEN [state |-> IF which = "nocooldown"
                      THEN Put(ss, key, st0)
                      ELSE Put(ss, key, [st0 EXCEPT !.blockedUntil = t + TOO_FAST_BLOCK_MS]),
            err |-> "TOO_FAST", retry |-> 3]
      ELSE
        LET st1 == IF which # "nowindow" /\ t - st0.windowStart > SPAM_WINDOW_MS
                   THEN [st0 EXCEPT !.windowStart = t, !.count = 0]
                   ELSE st0
            st2 == [st1 EXCEPT !.count = @ + 1, !.lastAt = t]
        IN  IF st2.count > SPAM_LIMIT
            THEN [state |-> Put(ss, key,
                              [st2 EXCEPT !.blockedUntil = t + SPAM_BLOCK_MS,
                                          !.count = IF which = "blockreset"
                                                    THEN 0 ELSE @]),
                  err |-> "SPAM_WINDOW",
                  retry |-> Max(1, Ceil(SPAM_BLOCK_MS, 1000))]
            ELSE [state |-> Put(ss, key, st2), err |-> "", retry |-> 0]

applySpamGuardNoWindow(ss, key, t) == applySpamGuardWith("nowindow", ss, key, t)

applySpamGuardBlockReset(ss, key, t) == applySpamGuardWith("blockreset", ss, key, t)

applySpamGuardNoCooldown(ss, key, t) == applySpamGuardWith("nocooldown", ss, key, t)

applySpamGuardRecount(ss, key, t) == applySpamGuardWith("recount", ss, key, t)

applySpamGuardExtend(ss, key, t) == applySpamGuardWith("extend", ss, key, t)

applySpamGuardCountFirst(ss, key, t) == applySpamGuardWith("countfirst", ss, key, t)

applySpamGuardOrThrow(ss, key, t) ==
  LET st0 == IF Has(ss, key) THEN ss[key]
             ELSE [windowStart |-> t, count |-> 0, blockedUntil |-> 0, lastAt |-> 0]
  IN  IF st0.blockedUntil # 0 /\ t < st0.blockedUntil
      THEN [state |-> ss, err |-> "COOLDOWN",
            retry |-> Max(1, Ceil(st0.blockedUntil - t, 1000))]
      ELSE IF st0.lastAt # 0 /\ t - st0.lastAt < MIN_INTERVAL_MS
      THEN [state |-> Put(ss, key, [st0 EXCEPT !.blockedUntil = t + TOO_FAST_BLOCK_MS]),
            err |-> "TOO_FAST", retry |-> 3]
      ELSE
        LET st1 == IF t - st0.windowStart > SPAM_WINDOW_MS
                   THEN [st0 EXCEPT !.windowStart = t, !.count = 0]
                   ELSE st0
            st2 == [st1 EXCEPT !.count = @ + 1, !.lastAt = t]
        IN  IF st2.count > SPAM_LIMIT
            THEN [state |-> Put(ss, key, [st2 EXCEPT !.blockedUntil = t + SPAM_BLOCK_MS]),
                  err |-> "SPAM_WINDOW",
                  retry |-> Max(1, Ceil(SPAM_BLOCK_MS, 1000))]
            ELSE [state |-> Put(ss, key, st2), err |-> "", retry |-> 0]

\* ------------------------------------------------------------ InFlightGuard
\* applyBusyGuardOrThrow without the test of the map.
applyBusyGuardNoTest(inf, key) == [state |-> inf \cup {key}, err |-> ""]

\* The in-flight guard testing the entry and leaving its recording to a
\* later step of the request.
applyBusyGuardUnrecorded(inf, key) ==
  IF key \in inf
  THEN [state |-> inf, err |-> "BUSY"]
  ELSE [state |-> inf, err |-> ""]

applyBusyGuardOrThrow(inf, key) ==
  IF key \in inf
  THEN [state |-> inf, err |-> "BUSY"]
  ELSE [state |-> inf \cup {key}, err |-> ""]

\* clearBusy deleting nothing.
\* clearBusy emptying the map.
clearBusyAll(inf, key) == {}

clearBusyNothing(inf, key) == inf

clearBusy(inf, key) == inf \ {key}

\* The governance calls without the busy guard.
GovernanceNoBusy(rs, ss, inf, key, t) ==
  LET rl == applyRateLimitOrThrow(rs, key, t)
      sg == applySpamGuardOrThrow(ss, key, t)
  IN  IF rl.err # ""
      THEN [rate |-> rl.state, spam |-> ss, inFlight |-> inf,
            err |-> rl.err, retry |-> rl.retry, status |-> 429]
      ELSE IF sg.err # ""
      THEN [rate |-> rl.state, spam |-> sg.state, inFlight |-> inf,
            err |-> sg.err, retry |-> sg.retry, status |-> 429]
      ELSE [rate |-> rl.state, spam |-> sg.state, inFlight |-> inf \cup {key},
            err |-> "", retry |-> 0, status |-> 0]

\* Governance with the in-flight guard called before the other two.
GovernanceBusyFirst(rs, ss, inf, key, t) ==
  IF applyBusyGuardOrThrow(inf, key).err # ""
  THEN [rate |-> rs, spam |-> ss, inFlight |-> inf,
        err |-> "BUSY", retry |-> 0, status |-> 409]
  ELSE GovernanceNoBusy(rs, ss, inf, key, t)

\* The three governance calls of a submit handler, in the order of the code;
\* a throw skips the calls after it.
Governance(rs, ss, inf, key, t) ==
  LET rl == applyRateLimitOrThrow(rs, key, t)
      sg == applySpamGuardOrThrow(ss, key, t)
      bg == applyBusyGuardOrThrow(inf, key)
  IN  IF rl.err # ""
      THEN [rate |-> rl.state, spam |-> ss, inFlight |-> inf,
            err |-> rl.err, retry |-> rl.retry, status |-> 429]
      ELSE IF sg.err # ""
      THEN [rate |-> rl.state, spam |-> sg.state, inFlight |-> inf,
            err |-> sg.err, retry |-> sg.retry, status |-> 429]
      ELSE IF bg.err # ""
      THEN [rate |-> rl.state, spam |-> sg.state, inFlight |-> inf,
            err |-> bg.err, retry |-> 0, status |-> 409]
      ELSE [rate |-> rl.state, spam |-> sg.state, inFlight |-> bg.state,
            err |-> "", retry |-> 0, status |-> 0]

\* ------------------------------------------------------------ ResponseCache
cleanupCache(c, t) ==
  [k \in {x \in DOMAIN c : ~(t - c[x].ts > CACHE_TTL)} |-> c[k]]

\* The cache lookup letting an entry of age CACHE_TTL count as a hit.
CacheHitAtTTL(c, q, t) == Has(c, q) /\ t - c[q].ts <= CACHE_TTL

\* cleanupCache run by a handler whatever its governance calls did.
CleanupAlways(c, err, t) == cleanupCache(c, t)

\* cached && msNow() - cached.ts < CACHE_TTL
CacheHit(c, q, t) == Has(c, q) /\ t - c[q].ts < CACHE_TTL

\* The cache as the handler leaves it at its first suspension or throw:
\* cleanupCache runs only once the governance calls have passed.
CacheAfterGovernance(c, err, t) == IF err # "" THEN c ELSE cleanupCache(c, t)

\* ------------------------------------------------------------ state
VARIABLES
  now,             \* msNow()
  rateState,       \* clientKey -> [windowStart, count, resetAt]
  spamState,       \* clientKey -> [windowStart, count, blockedUntil, lastAt]
  inFlight,        \* the keys of the inFlight map
  cache,           \* cacheKey -> [ts, reply]
  cachedMenuText,  \* _cachedMenuText is set
  cachedApiKey,    \* _cachedApiKey is set
  cachedMenuChunks,        \* _cachedMenuChunks: undefined, or the chunk list
  cachedMenuEmbeddings,    \* _cachedMenuEmbeddings: undefined, or the vectors
  cachedIntentEmbeddings,  \* _cachedIntentEmbeddings is set
  req,             \* slot -> the invocation of the handler running in it
  nsub,            \* history: the submissions with a message handled so far
  hist,            \* history, per key: what its submissions met
  stored,          \* history, per cache key: the last answer stored and when
  streamify,       \* awslambda.streamifyResponse is available (handlerImpl)
  fcall            \* a call of one of the pure functions: argument and result

vars == <<now, rateState, spamState, inFlight, cache, cachedMenuText,
          cachedApiKey, cachedMenuChunks, cachedMenuEmbeddings,
                 cachedIntentEmbeddings, req, nsub,
          hist, stored, streamify, fcall>>

\* A module variable that caches a list: never assigned, or assigned l.
Undefined == [set |-> FALSE, list |-> <<>>]
Defined(l) == [set |-> TRUE, list |-> l]

\* chunkMenuForEmbedding of the menu text: its chunks, in order.
MenuChunkList == [i \in 1 .. MenuChunks |-> i]

\* The answers the embedding capability may give to one input.
EmbedReplies == {1, 2}

\* The vector the embedding capability answered for chunk c.
Embedding(c, v) == [of |-> c, reply |-> v]

\* The vectors of the chunks when every call was answered alike.
MenuVectors(v) == [i \in 1 .. MenuChunks |-> Embedding(MenuChunkList[i], v)]

\* No pure function is being called.
NoCall == [fn |-> "", arg |-> <<>>, done |-> FALSE, val |-> <<>>]

\* A slot no invocation has used yet.
IdleReq ==
  [pc |-> "idle", key |-> "k1", mode |-> "buffered", ckey |-> "q1",
   err |-> "", retry |-> 0, status |-> 0, cached |-> FALSE, reply |-> <<>>,
   parts |-> <<>>, full |-> <<>>, wire |-> <<>>,
   \* history: what the generation capability yielded to this invocation
   out |-> <<>>,
   \* the embedding calls the loop this invocation is in has yet to await
   left |-> 0,
   \* the arrays chunks and embeddings of getMenuEmbeddings while its loop runs
   chunks |-> <<>>, embeddings |-> <<>>,
   \* the rejection left the exported handler: no response was made
   escaped |-> FALSE,
   \* history of this invocation
   at |-> 0, over |-> FALSE, acq |-> FALSE, rel |-> 0, ext |-> 0, gen |-> FALSE,
   touched |-> FALSE, fresh |-> FALSE, freshReply |-> <<>>]

NoSub == [at |-> 0, res |-> "NONE", retry |-> 0]
NoBlock == [kind |-> "NONE", at |-> 0, until |-> 0, cnt |-> 0, seen |-> FALSE,
            rprev |-> 0, rlast |-> 0]
NoHist == [last |-> NoSub, prev |-> NoSub, block |-> NoBlock,
           gwStart |-> 0, gwCalls |-> 0]

\* The pcs at which an invocation is suspended at an await.
RunningPcs == {"menu", "apikey", "chunks", "retrieval", "intents", "generate",
               "streaming"}
Running(r) == req[r].pc \in RunningPcs

\* History: the invocation in slot r has acquired the in-flight entry of its
\* key (applyBusyGuardOrThrow returned) and has not released it (clearBusy).
Holding(r) == req[r].acq /\ req[r].rel = 0

\* History: a request of key k is outstanding.
Outstanding(k) == \E x \in Slots : Holding(x) /\ req[x].key = k

ColdStart ==
  /\ now = StartTime
  /\ rateState = EmptyMap
  /\ spamState = EmptyMap
  /\ inFlight = {}
  /\ cache = EmptyMap
  /\ cachedMenuText = FALSE
  /\ cachedApiKey = FALSE
  /\ cachedMenuChunks = Undefined
  /\ cachedMenuEmbeddings = Undefined
  /\ cachedIntentEmbeddings = FALSE
  /\ req = [r \in Slots |-> IdleReq]
  /\ nsub = 0
  /\ hist = [k \in Keys |-> NoHist]
  /\ stored = EmptyMap

\* The process where response streaming is available: handlerImpl is the
\* streamifyResponse handler.
Init == ColdStart /\ streamify = TRUE /\ fcall = NoCall

\* The process where it is not: handlerImpl is routeBuffered.
InitRouter == ColdStart /\ streamify = FALSE /\ fcall = NoCall

\* ------------------------------------------------------------ history
\* What hist[k] becomes when a submission of k at time t ends governance with
\* result res ("OK" or the error) and retry-after retry; cnt is the spam
\* window counter of k after the call.
HistAfter(h, t, res, retry, cnt) ==
  LET newWin == h.gwCalls = 0 \/ t - h.gwStart > RL_WINDOW_MS
      dur == IF res = "TOO_FAST" THEN TOO_FAST_BLOCK_MS ELSE SPAM_BLOCK_MS
  IN  [last |-> [at |-> t, res |-> res, retry |-> retry],
       prev |-> h.last,
       gwStart |-> IF newWin THEN t ELSE h.gwStart,
       gwCalls |-> IF newWin THEN 1 ELSE h.gwCalls + 1,
       block |->
         IF res \in {"TOO_FAST", "SPAM_WINDOW"}
         THEN [kind |-> res, at |-> t, until |-> t + dur, cnt |-> cnt,
               seen |-> FALSE, rprev |-> retry, rlast |-> retry]
         ELSE IF h.block.kind = "NONE" THEN h.block
         ELSE IF res = "COOLDOWN"
         THEN [h.block EXCEPT !.seen = TRUE, !.rprev = h.block.rlast, !.rlast = retry]
         ELSE [h.block EXCEPT !.seen = TRUE]]

SpamCount(ss, k) == IF Has(ss, k) THEN ss[k].count ELSE 0

\* ------------------------------------------------------------ wire
\* What the handlers write to the response stream, call by call.
Event(e, d) == [ev |-> e, data |-> d]
Open     == Event("open", <<>>)     \* HttpResponseStream.from(responseStream, meta)
Delta(d) == Event("delta", d)       \* write(`data: {"delta": d}`)
ErrorEv  == Event("error", <<>>)    \* write(`data: {"error": "SERVER_ERROR"}`)
Done     == Event("done", <<>>)     \* write(`data: [DONE]`)
Json     == Event("json", <<>>)     \* write(out.body), a JSON payload
End      == Event("end", <<>>)      \* end()

\* handleChatStream, cache hit: the cached answer as one delta, then [DONE].
StreamHitWire(reply) == <<Open, Delta(reply), Done, End>>

\* handleChatStream, after the last fragment.
StreamEndWire(w) == w \o <<Done, End>>

\* The catch of handleChatStream ending the stream without the [DONE] event.
StreamCatchWireNoDone(w) == w \o <<ErrorEv, End>>

\* handleChatStream, catch (err): error marker, [DONE], end.
StreamCatchWire(w) == w \o <<ErrorEv, Done, End>>

\* handlerImpl, catch (err): a JSON error response on the handler's stream.
HandlerCatchWire(w) == w \o <<Open, Json, End>>

\* handlerImpl, POST /api/chat: the JSON response of handleChatBuffered.
BufferedWire == <<Open, Json, End>>

\* ------------------------------------------------------------ actions
\* Time passes between two runs of the event loop.
Tick(d, limit) ==
  /\ d > 0
  /\ now + d <= limit
  /\ now' = now + d
  /\ UNCHANGED <<fcall, streamify, cachedMenuChunks, cachedMenuEmbeddings, cachedIntentEmbeddings,
                 rateState, spamState, inFlight, cache, cachedMenuText,
                 cachedApiKey, req, nsub, hist, stored>>

\* The handler that serves a POST to the path of mode m: handlerImpl with
\* streaming sends /api/chat-stream to handleChatStream; routeBuffered sends
\* both paths to handleChatBuffered.
Served(m) == IF streamify THEN m ELSE "buffered"

\* handleChatBuffered / handleChatStream with an empty message.
\* handleChatBuffered returns json(400, ..) and the response is made with that
\* status.  handleChatStream writes the body of json(400, ..) to the response
\* stream as it was handed in, without HttpResponseStream.from: the handler
\* sets no status (0) and ends the stream.
NoMessage(r, m) ==
  /\ req[r].pc \in {"idle", "done"}
  /\ req' = [req EXCEPT ![r] =
       [IdleReq EXCEPT !.pc = "done", !.mode = Served(m), !.err = "NO_MESSAGE",
                       !.status = IF Served(m) = "stream" THEN 0 ELSE 400,
                       !.wire = IF Served(m) = "stream" THEN <<Json, End>>
                                ELSE BufferedWire]]
  /\ UNCHANGED <<fcall, streamify, cachedMenuChunks, cachedMenuEmbeddings, cachedIntentEmbeddings,
                 now, rateState, spamState, inFlight, cache, cachedMenuText,
                 cachedApiKey, nsub, hist, stored>>

\* The invocation has thrown e, an error with the fields retryAfterSec and
\* statusCode.  With streaming, handlerImpl's catch answers it.  routeBuffered
\* has no catch: the promise it returns is rejected with e and no response is
\* made.
Thrown(rq, e, retry, status) ==
  IF streamify
  THEN [rq EXCEPT !.pc = "done", !.err = e, !.retry = retry,
                  !.status = status, !.wire = HandlerCatchWire(@)]
  ELSE [rq EXCEPT !.pc = "done", !.err = e, !.retry = retry,
                  !.escaped = TRUE]

\* buildMenuContextForQuery is entered: getMenuEmbeddings returns what the
\* process keeps, and the query is sent to the embedding capability; or it
\* keeps nothing yet, and the first chunk is sent.
ToEmbeddings(rq) ==
  IF cachedMenuChunks.set /\ cachedMenuEmbeddings.set
  THEN [rq EXCEPT !.pc = "retrieval"]
  ELSE [rq EXCEPT !.pc = "chunks", !.left = MenuChunks,
                  !.chunks = MenuChunkList, !.embeddings = <<>>]

\* The secret is asked for: getOpenAIApiKey returns the kept one and
\* buildMenuContextForQuery is entered, or it fetches the secret.
ToApiKey(rq) ==
  IF cachedApiKey THEN ToEmbeddings(rq) ELSE [rq EXCEPT !.pc = "apikey"]

\* computeReply / handleChatStream after a cache miss: getMenuText returns
\* the kept text, or fetches the corpus.
ToMenu(rq) ==
  IF cachedMenuText THEN ToApiKey(rq) ELSE [rq EXCEPT !.pc = "menu"]

\* handleChatBuffered / handleChatStream with a message, from the governance
\* calls to the first await of an external call: rejection, cache hit, or the
\* first external call of a cache miss (the corpus, the secret and the
\* embeddings of the chunks are fetched only while the process does not keep
\* them).  cap bounds the submissions of one
\* run; track says whether the history of the key is recorded.
Submit(r, k, m, q, cap, track) ==
  /\ req[r].pc \in {"idle", "done"}
  /\ nsub < cap
  /\ nsub' = nsub + 1
  /\ LET g    == Governance(rateState, spamState, inFlight, k, now)
         c1   == CacheAfterGovernance(cache, g.err, now)
         hit  == CacheHit(c1, q, now)
         frsh == Has(stored, q) /\ now - stored[q].ts < CACHE_TTL
         base == [IdleReq EXCEPT !.key = k, !.mode = Served(m), !.ckey = q,
                                 !.at = IF track THEN now ELSE 0,
                                 !.over = Outstanding(k),
                                 !.touched = (c1 # cache), !.fresh = frsh,
                                 !.freshReply = IF frsh THEN stored[q].reply ELSE <<>>]
         miss == ToMenu([base EXCEPT !.acq = TRUE, !.ext = 1,
                              !.wire = IF Served(m) = "stream" THEN <<Open>> ELSE <<>>])
         hitrq == [base EXCEPT !.pc = "done", !.acq = TRUE, !.rel = 1,
                               !.cached = TRUE, !.reply = c1[q].reply,
                               !.status = 200,
                               !.wire = IF Served(m) = "stream"
                                        THEN StreamHitWire(c1[q].reply)
                                        ELSE BufferedWire]
     IN
       /\ rateState' = g.rate
       /\ spamState' = g.spam
       /\ cache' = c1
       /\ hist' = IF ~track THEN hist ELSE
            [hist EXCEPT ![k] =
               HistAfter(@, now, IF g.err = "" THEN "OK" ELSE g.err, g.retry,
                         SpamCount(g.spam, k))]
       /\ IF g.err # ""
          THEN /\ req' = [req EXCEPT ![r] = Thrown(base, g.err, g.retry, g.status)]
               /\ inFlight' = g.inFlight
          ELSE IF hit
          THEN /\ req' = [req EXCEPT ![r] = hitrq]
               /\ inFlight' = clearBusy(g.inFlight, k)
          ELSE /\ req' = [req EXCEPT ![r] = miss]
               /\ inFlight' = g.inFlight
  /\ UNCHANGED <<fcall, streamify, cachedMenuChunks, cachedMenuEmbeddings, cachedIntentEmbeddings,
                 now, cachedMenuText, cachedApiKey, stored>>

\* The corpus fetch of getMenuText() returns and the text is kept.
AwaitMenu(r) ==
  /\ req[r].pc = "menu"
  /\ cachedMenuText' = TRUE
  /\ req' = [req EXCEPT ![r] = ToApiKey([@ EXCEPT !.ext = @ + 1])]
  /\ UNCHANGED <<fcall, streamify, cachedMenuChunks, cachedMenuEmbeddings, cachedIntentEmbeddings,
                 now, rateState, spamState, inFlight, cache, cachedApiKey,
                 nsub, hist, stored>>

\* The secret fetch of getOpenAIApiKey() returns and the key is kept.
AwaitKey(r) ==
  /\ req[r].pc = "apikey"
  /\ cachedApiKey' = TRUE
  /\ req' = [req EXCEPT ![r] = ToEmbeddings([@ EXCEPT !.ext = @ + 1])]
  /\ UNCHANGED <<fcall, streamify, cachedMenuChunks, cachedMenuEmbeddings, cachedIntentEmbeddings,
                 now, rateState, spamState, inFlight, cache, cachedMenuText,
                 nsub, hist, stored>>

\* getMenuEmbeddings: the embedding of one chunk returns.  After the last
\* one the chunks and their embeddings are kept, and buildMenuContextForQuery
\* sends the query to the embedding capability.
AwaitChunk(r, v) ==
  /\ req[r].pc = "chunks"
  /\ LET chunks == req[r].chunks
         embeddings ==
           Append(req[r].embeddings,
                  Embedding(chunks[Len(req[r].embeddings) + 1], v))
     IN  IF req[r].left > 1
         THEN /\ req' = [req EXCEPT ![r].left = @ - 1, ![r].ext = @ + 1,
                                    ![r].embeddings = embeddings]
              /\ UNCHANGED <<cachedMenuChunks, cachedMenuEmbeddings>>
         ELSE /\ req' = [req EXCEPT ![r].pc = "retrieval", ![r].left = 0,
                                    ![r].ext = @ + 1,
                                    ![r].chunks = <<>>, ![r].embeddings = <<>>]
              /\ cachedMenuChunks' = Defined(chunks)
              /\ cachedMenuEmbeddings' = Defined(embeddings)
  /\ UNCHANGED <<fcall, streamify, cachedIntentEmbeddings, now, rateState, spamState,
                 inFlight, cache, cachedMenuText, cachedApiKey, nsub, hist,
                 stored>>

\* buildMenuContextForQuery: the embedding of the query returns.  detectIntent
\* calls getIntentEmbeddings: with the prototypes kept, the chunks are ranked,
\* the context is built and chat.completions.create is called; otherwise the
\* first prototype is sent to the embedding capability.
AwaitRetrieval(r) ==
  /\ req[r].pc = "retrieval"
  /\ req' = IF cachedIntentEmbeddings
            THEN [req EXCEPT ![r].pc = "generate", ![r].ext = @ + 1,
                             ![r].gen = TRUE]
            ELSE [req EXCEPT ![r].pc = "intents", ![r].ext = @ + 1,
                             ![r].left = IntentCount]
  /\ UNCHANGED <<fcall, streamify, cachedMenuChunks, cachedMenuEmbeddings, cachedIntentEmbeddings,
                 now, rateState, spamState, inFlight, cache, cachedMenuText,
                 cachedApiKey, nsub, hist, stored>>

\* getIntentEmbeddings: the embedding of one prototype returns.  After the
\* last one the prototypes are kept, the chunks are ranked, the context is
\* built and chat.completions.create is called.
AwaitIntent(r) ==
  /\ req[r].pc = "intents"
  /\ IF req[r].left > 1
     THEN /\ req' = [req EXCEPT ![r].left = @ - 1, ![r].ext = @ + 1]
          /\ UNCHANGED cachedIntentEmbeddings
     ELSE /\ req' = [req EXCEPT ![r].pc = "generate", ![r].left = 0,
                                ![r].ext = @ + 1, ![r].gen = TRUE]
          /\ cachedIntentEmbeddings' = TRUE
  /\ UNCHANGED <<fcall, streamify, cachedMenuChunks, cachedMenuEmbeddings, now, rateState, spamState,
                 inFlight, cache, cachedMenuText, cachedApiKey, nsub, hist,
                 stored>>

\* computeReply: the complete answer of the completion, trimmed.  The
\* content of the buffered completion is the fragments of out joined.
BufferedAnswer(out) == Trim(Concat(out))

\* await chat.completions.create() returns with the output out.
\* Buffered: computeReply trims the answer, stores it and returns, the
\* finally of handleChatBuffered releases the key and handlerImpl writes the
\* JSON response.  Streaming: handleChatStream starts to iterate.
AwaitGenerate(r, out) ==
  /\ req[r].pc = "generate"
  /\ IF req[r].mode = "buffered"
     THEN LET reply == BufferedAnswer(out) IN
          /\ cache' = Put(cache, req[r].ckey, [ts |-> now, reply |-> reply])
          /\ stored' = Put(stored, req[r].ckey, [ts |-> now, reply |-> reply])
          /\ inFlight' = clearBusy(inFlight, req[r].key)
          /\ req' = [req EXCEPT ![r].pc = "done",
                                ![r].reply = reply, ![r].touched = TRUE,
                                ![r].status = 200, ![r].rel = @ + 1,
                                ![r].wire = BufferedWire, ![r].out = out]
     ELSE /\ req' = [req EXCEPT ![r].pc = "streaming", ![r].parts = out,
                                ![r].out = out]
          /\ UNCHANGED <<cache, stored, inFlight>>
  /\ UNCHANGED <<fcall, streamify, cachedMenuChunks, cachedMenuEmbeddings, cachedIntentEmbeddings,
                 now, rateState, spamState, cachedMenuText, cachedApiKey,
                 nsub, hist>>

\* StreamPart writing a delta event for an empty fragment too.
StreamPartEveryFragment(r) ==
  /\ req[r].pc = "streaming"
  /\ req[r].parts # <<>>
  /\ LET delta == Head(req[r].parts) IN
     req' = [req EXCEPT ![r].parts = Tail(@),
                        ![r].full = @ \o delta,
                        ![r].wire = Append(@, Delta(delta))]
  /\ UNCHANGED <<fcall, streamify, cachedMenuChunks, cachedMenuEmbeddings, cachedIntentEmbeddings,
                 now, rateState, spamState, inFlight, cache, cachedMenuText,
                 cachedApiKey, nsub, hist, stored>>

\* StreamPart storing the text collected so far at every fragment.
StreamPartStoring(r) ==
  /\ req[r].pc = "streaming"
  /\ req[r].parts # <<>>
  /\ LET delta == Head(req[r].parts)
         full  == IF delta = <<>> THEN req[r].full ELSE req[r].full \o delta
     IN  /\ req' = [req EXCEPT ![r].parts = Tail(@),
                               ![r].full = full,
                               ![r].wire = IF delta = <<>> THEN @ ELSE Append(@, Delta(delta))]
         /\ cache' = Put(cache, req[r].ckey, [ts |-> now, reply |-> full])
  /\ UNCHANGED <<fcall, streamify, cachedMenuChunks, cachedMenuEmbeddings, cachedIntentEmbeddings,
                 now, rateState, spamState, inFlight, cachedMenuText,
                 cachedApiKey, nsub, hist, stored>>

\* for await (const part of stream): one fragment arrives.
StreamPart(r) ==
  /\ req[r].pc = "streaming"
  /\ req[r].parts # <<>>
  /\ LET delta == Head(req[r].parts) IN
     req' = [req EXCEPT ![r].parts = Tail(@),
                        ![r].full = IF delta = <<>> THEN @ ELSE @ \o delta,
                        ![r].wire = IF delta = <<>> THEN @ ELSE Append(@, Delta(delta))]
  /\ UNCHANGED <<fcall, streamify, cachedMenuChunks, cachedMenuEmbeddings, cachedIntentEmbeddings,
                 now, rateState, spamState, inFlight, cache, cachedMenuText,
                 cachedApiKey, nsub, hist, stored>>

\* StreamEnd storing and returning the collected text untrimmed.
StreamEndUntrimmed(r) ==
  /\ req[r].pc = "streaming"
  /\ req[r].parts = <<>>
  /\ LET full == req[r].full IN
     /\ cache' = Put(cache, req[r].ckey, [ts |-> now, reply |-> full])
     /\ stored' = Put(stored, req[r].ckey, [ts |-> now, reply |-> full])
     /\ req' = [req EXCEPT ![r].pc = "done", ![r].reply = full,
                           ![r].full = full, ![r].status = 200,
                           ![r].touched = TRUE, ![r].rel = @ + 1,
                           ![r].wire = StreamEndWire(@)]
  /\ inFlight' = clearBusy(inFlight, req[r].key)
  /\ UNCHANGED <<fcall, streamify, cachedMenuChunks, cachedMenuEmbeddings, cachedIntentEmbeddings,
                 now, rateState, spamState, cachedMenuText, cachedApiKey,
                 nsub, hist>>

\* The stream of fragments ends: trim, store, [DONE], end; finally clearBusy.
StreamEnd(r) ==
  /\ req[r].pc = "streaming"
  /\ req[r].parts = <<>>
  /\ LET full == Trim(req[r].full) IN
     /\ cache' = Put(cache, req[r].ckey, [ts |-> now, reply |-> full])
     /\ stored' = Put(stored, req[r].ckey, [ts |-> now, reply |-> full])
     /\ req' = [req EXCEPT ![r].pc = "done", ![r].reply = full,
                           ![r].full = full, ![r].status = 200,
                           ![r].touched = TRUE, ![r].rel = @ + 1,
                           ![r].wire = StreamEndWire(@)]
  /\ inFlight' = clearBusy(inFlight, req[r].key)
  /\ UNCHANGED <<fcall, streamify, cachedMenuChunks, cachedMenuEmbeddings, cachedIntentEmbeddings,
                 now, rateState, spamState, cachedMenuText, cachedApiKey,
                 nsub, hist>>

\* The external call an invocation awaits fails (or the transport aborts it).
\* Buffered: computeReply rejects, the finally of handleChatBuffered releases
\* the key.  Streaming: handleChatStream runs its catch and its finally and
\* rethrows.  Either way handlerImpl's catch answers the error.
Fail(r) ==
  /\ req[r].pc \in RunningPcs
  /\ req' = [req EXCEPT ![r] =
       Thrown([@ EXCEPT !.rel = @ + 1,
                        !.chunks = <<>>, !.embeddings = <<>>,
                        !.wire = IF req[r].mode = "stream"
                                 THEN StreamCatchWire(@) ELSE @],
              "SERVER_ERROR", 0, 500)]
  /\ inFlight' = clearBusy(inFlight, req[r].key)
  /\ UNCHANGED <<fcall, streamify, cachedMenuChunks, cachedMenuEmbeddings, cachedIntentEmbeddings,
                 now, rateState, spamState, cache, cachedMenuText, cachedApiKey,
                 nsub, hist, stored>>

\* ------------------------------------------------------------ specifications
\* The pipeline: the requests of one client interleaving at their awaits.
Next ==
  \/ Tick(MIN_INTERVAL_MS, StartTime + MainTicks * MIN_INTERVAL_MS)
  \/ \E r \in Slots, m \in Modes : NoMessage(r, m)
  \/ \E r \in Slots, m \in Modes, q \in CacheKeys :
        Submit(r, "k1", m, q, MaxSubmits, FALSE)
  \/ \E r \in Slots : AwaitMenu(r)
  \/ \E r \in Slots : AwaitKey(r)
  \/ \E r \in Slots : AwaitChunk(r, 1)
  \/ \E r \in Slots : AwaitRetrieval(r)
  \/ \E r \in Slots : AwaitIntent(r)
  \/ \E r \in Slots, out \in GenOutputs : AwaitGenerate(r, out)
  \/ \E r \in Slots : StreamPart(r)
  \/ \E r \in Slots : StreamEnd(r)
  \/ \E r \in Slots : Fail(r)

Spec == Init /\ [][Next]_vars

\* The pipeline behind routeBuffered: every request is served by
\* handleChatBuffered, whichever path it was posted to.
NextRouter ==
  \/ Tick(MIN_INTERVAL_MS, StartTime + MainTicks * MIN_INTERVAL_MS)
  \/ \E r \in Slots, m \in Modes : NoMessage(r, m)
  \/ \E r \in Slots, m \in Modes, q \in CacheKeys :
        Submit(r, "k1", m, q, MaxSubmits, FALSE)
  \/ \E r \in Slots : AwaitMenu(r)
  \/ \E r \in Slots : AwaitKey(r)
  \/ \E r \in Slots : AwaitChunk(r, 1)
  \/ \E r \in Slots : AwaitRetrieval(r)
  \/ \E r \in Slots : AwaitIntent(r)
  \/ \E r \in Slots, out \in GenOutputs : AwaitGenerate(r, out)
  \/ \E r \in Slots : Fail(r)

SpecRouter == InitRouter /\ [][NextRouter]_vars

\* Two clients' first requests on a cold process, in one millisecond.
NextEmbed ==
  \/ \E r \in Slots, k \in Keys, m \in Modes, q \in CacheKeys :
        Submit(r, k, m, q, MaxEmbedSubmits, FALSE)
  \/ \E r \in Slots : AwaitMenu(r)
  \/ \E r \in Slots : AwaitKey(r)
  \/ \E r \in Slots : AwaitChunk(r, 1)
  \/ \E r \in Slots : AwaitRetrieval(r)
  \/ \E r \in Slots : AwaitIntent(r)
  \/ \E r \in Slots, out \in GenOutputs : AwaitGenerate(r, out)
  \/ \E r \in Slots : StreamPart(r)
  \/ \E r \in Slots : StreamEnd(r)
  \/ \E r \in Slots : Fail(r)

SpecEmbed == Init /\ [][NextEmbed]_vars

\* Two clients' first requests on a cold process, in one millisecond, the
\* embedding capability answering each call with one of EmbedReplies.
NextWarm ==
  \/ \E r \in Slots, k \in Keys, m \in Modes, q \in CacheKeys :
        Submit(r, k, m, q, MaxWarmSubmits, FALSE)
  \/ \E r \in Slots : AwaitMenu(r)
  \/ \E r \in Slots : AwaitKey(r)
  \/ \E r \in Slots, v \in EmbedReplies : AwaitChunk(r, v)
  \/ \E r \in Slots : AwaitRetrieval(r)
  \/ \E r \in Slots : AwaitIntent(r)
  \/ \E r \in Slots, out \in GenOutputs : AwaitGenerate(r, out)
  \/ \E r \in Slots : StreamPart(r)
  \/ \E r \in Slots : StreamEnd(r)
  \/ \E r \in Slots : Fail(r)

SpecWarm == Init /\ [][NextWarm]_vars

\* ------------------------------------------------------------ sections
\* A corpus text is a sequence of characters; an occurrence of a heading a
\* marker pattern matches is one character: "M" for MEZE / MEZZE, "D" for
\* ITALOK / DRINKS (two of the ten markers), "F" for the footer sentence.
Markers == << [key |-> "meze", rx |-> "M"], [key |-> "drinks", rx |-> "D"] >>
RX_FOOTER == "F"

\* String.prototype.slice(a, b) with 0 <= a and b <= length.
Slice(t, a, b) == SubSeq(t, a + 1, b)

\* indexOfRegex(text, regex): the index of the first match, or -1.
indexOfRegex(text, rx) ==
  IF \E i \in 1 .. Len(text) : text[i] = rx
  THEN (CHOOSE i \in 1 .. Len(text) :
          text[i] = rx /\ \A j \in 1 .. i - 1 : text[j] # rx) - 1
  ELSE -1

\* Array.prototype.sort by pos, of markers found at different positions.
RECURSIVE SortByPos(_)
SortByPos(S) ==
  IF S = {} THEN <<>>
  ELSE LET m == CHOOSE m \in S : \A x \in S : m.pos <= x.pos
       IN  <<m>> \o SortByPos(S \ {m})

\* { key, text: raw.trim() } for raw = t.slice(a, b).  History: from is the
\* index in t of the first character of text.
Section(key, t, a, b) ==
  LET raw == Slice(t, a, b)
  IN  [key |-> key, text |-> Trim(raw),
       from |-> a + Len(raw) - Len(TrimStart(raw))]

\* splitSections without the footer section.
splitSectionsNoFooter(restaurantInfo) ==
  LET t == restaurantInfo
      found == { [key |-> Markers[i].key, pos |-> indexOfRegex(t, Markers[i].rx)] :
                 i \in 1 .. Len(Markers) }
      positions == SortByPos({ m \in found : m.pos >= 0 })
      n == Len(positions)
      intro ==
        IF n > 0
        THEN IF positions[1].pos > 0
             THEN << Section("intro", t, 0, positions[1].pos) >>
             ELSE <<>>
        ELSE IF Trim(t) # <<>>
             THEN << [key |-> "intro",
                      text |-> Slice(Trim(t), 0,
                                     IF Len(Trim(t)) < MAX_MENU_CHUNK
                                     THEN Len(Trim(t)) ELSE MAX_MENU_CHUNK),
                      from |-> Len(t) - Len(TrimStart(t))] >>
             ELSE <<>>
      marked ==
        [i \in 1 .. n |->
           Section(positions[i].key, t, positions[i].pos,
                   IF i + 1 <= n THEN positions[i + 1].pos ELSE Len(t))]
  IN  SelectSeq(intro \o marked, LAMBDA sec : sec.text # <<>>)

\* A marker pattern matches in t.
MarkerFound(t) == \E i \in 1 .. Len(Markers) : indexOfRegex(t, Markers[i].rx) >= 0

\* splitSections keeping the whole trimmed text of a corpus without match.
splitSectionsWhole(restaurantInfo) ==
  IF ~MarkerFound(restaurantInfo) /\ Trim(restaurantInfo) # <<>>
     /\ indexOfRegex(restaurantInfo, RX_FOOTER) < 0
  THEN << [key |-> "intro", text |-> Trim(restaurantInfo),
           from |-> Len(restaurantInfo) - Len(TrimStart(restaurantInfo))] >>
  ELSE splitSectionsNoFooter(restaurantInfo)

\* splitSections: the intro, the marker sections in the order of their
\* positions, and the footer section; sections of empty text are left out.
splitSections(restaurantInfo) ==
  LET t == restaurantInfo
      footerPos == indexOfRegex(t, RX_FOOTER)
      footer ==
        IF footerPos >= 0
        THEN << Section("footer", t, footerPos, Len(t)) >>
        ELSE <<>>
  IN  SelectSeq(splitSectionsNoFooter(t) \o footer,
                LAMBDA sec : sec.text # <<>>)

\* Corpus texts of up to MaxText characters.
TextChars == {"a", " ", "M", "D", "F"}
ShortTexts == UNION { [1 .. n -> TextChars] : n \in 0 .. MaxText }

\* Corpus texts at the cap of a section and over it, without a heading.
LongTexts ==
  { Rep(MAX_MENU_CHUNK, "a"), Rep(MAX_MENU_CHUNK + 1, "a"),
    <<" ">> \o Rep(MAX_MENU_CHUNK, "a") \o <<" ", "a", " ">> }

CorpusTexts == ShortTexts \cup LongTexts

InitSplit ==
  /\ ColdStart
  /\ streamify = TRUE
  /\ \E t \in CorpusTexts :
       fcall = [fn |-> "splitSections", arg |-> t, done |-> FALSE, val |-> <<>>]

\* chunkMenuForEmbedding calls splitSections on the menu text.
SplitSections ==
  /\ fcall.fn = "splitSections"
  /\ ~fcall.done
  /\ fcall' = [fcall EXCEPT !.done = TRUE, !.val = splitSections(fcall.arg)]
  /\ UNCHANGED <<now, rateState, spamState, inFlight, cache, cachedMenuText,
                 cachedApiKey, cachedMenuChunks, cachedMenuEmbeddings,
                 cachedIntentEmbeddings, req,
                 nsub, hist, stored, streamify>>

NextSplit == SplitSections

SpecSplit == InitSplit /\ [][NextSplit]_vars

\* ------------------------------------------------------------ chunking runs
\* Lines of a menu: blank, short with white space at an end, half the cap,
\* just under the cap, and longer than the cap.
Line(lead, n, trail) == Rep(lead, " ") \o Rep(n, "a") \o Rep(trail, " ")

MenuLines ==
  { <<>>, Line(0, 1, 1), Line(1, 1, 0), Line(0, MAX_EMBED_CHUNK_CHARS \div 2, 0),
    Line(0, MAX_EMBED_CHUNK_CHARS - 2, 0), Line(0, MAX_EMBED_CHUNK_CHARS + 1, 0) }

\* The section texts: 1 to MaxLines lines joined by line feeds.
SectionTexts ==
  { JoinLines(ls) : ls \in UNION { [1..n -> MenuLines] : n \in 1..MaxLines } }

InitChunk ==
  /\ ColdStart
  /\ streamify = TRUE
  /\ \E t \in SectionTexts :
       fcall = [fn |-> "chunkSection", arg |-> t, done |-> FALSE, val |-> <<>>]

\* chunkMenuForEmbedding calls chunkSection on the text of a section.
ChunkSection ==
  /\ fcall.fn = "chunkSection"
  /\ ~fcall.done
  /\ fcall' = [fcall EXCEPT !.done = TRUE, !.val = chunkSection(fcall.arg)]
  /\ UNCHANGED <<now, rateState, spamState, inFlight, cache, cachedMenuText,
                 cachedApiKey, cachedMenuChunks, cachedMenuEmbeddings,
                 cachedIntentEmbeddings, req,
                 nsub, hist, stored, streamify>>

NextChunk == ChunkSection

SpecChunk == InitChunk /\ [][NextChunk]_vars

\* ------------------------------------------------------------ ranking runs
\* The zero vector, two parallel vectors, their opposite and two others.
Vectors == { <<0, 0>>, <<3, 4>>, <<6, 8>>, <<-3, -4>>, <<4, 3>>, <<5, 0>> }

Corpora == UNION { [1..n -> Vectors] : n \in 1..MaxCorpus }

InitRank ==
  /\ ColdStart
  /\ streamify = TRUE
  /\ \E q \in Vectors, c \in Corpora :
       fcall = [fn |-> "rank", arg |-> [query |-> q, corpus |-> c],
                done |-> FALSE, val |-> <<>>]

\* buildMenuContextForQuery scores and sorts the chunks.
Rank ==
  /\ fcall.fn = "rank"
  /\ ~fcall.done
  /\ fcall' = [fcall EXCEPT !.done = TRUE,
                            !.val = Ranking(fcall.arg.query, fcall.arg.corpus)]
  /\ UNCHANGED <<now, rateState, spamState, inFlight, cache, cachedMenuText,
                 cachedApiKey, cachedMenuChunks, cachedMenuEmbeddings,
                 cachedIntentEmbeddings, req,
                 nsub, hist, stored, streamify>>

NextRank == Rank

SpecRank == InitRank /\ [][NextRank]_vars

\* ------------------------------------------------------------ selection runs
\* An index of up to MaxChunks chunks whose vectors are the query or a vector
\* near it, and the intent detected for the query.
SelQuery == <<3, 4>>
SelVectors == { <<3, 4>>, <<4, 3>> }
Indexes == UNION { [1..n -> SelVectors] : n \in 1..MaxChunks }

InitSelect ==
  /\ ColdStart
  /\ streamify = TRUE
  /\ \E c \in Indexes, i \in 1..Len(IntentKeys) :
       fcall = [fn |-> "select",
                arg |-> [query |-> SelQuery, corpus |-> c,
                         intent |-> IntentKeys[i]],
                done |-> FALSE, val |-> <<>>]

\* buildMenuContextForQuery selects the topK chunks.
Select ==
  /\ fcall.fn = "select"
  /\ ~fcall.done
  /\ fcall' = [fcall EXCEPT !.done = TRUE,
                            !.val = Selected(fcall.arg.query, fcall.arg.corpus,
                                             fcall.arg.intent)]
  /\ UNCHANGED <<now, rateState, spamState, inFlight, cache, cachedMenuText,
                 cachedApiKey, cachedMenuChunks, cachedMenuEmbeddings,
                 cachedIntentEmbeddings, req,
                 nsub, hist, stored, streamify>>

NextSelect == Select

SpecSelect == InitSelect /\ [][NextSelect]_vars

\* ------------------------------------------------------------ context runs
\* The index of a corpus with or without intro and footer and with one
\* marker section of 1 to MaxMarked chunks; the texts are short, with any
\* vectors, or that of the first chunk of the section is as long as the cap
\* of the context, with the vector of the query for every chunk.
KeyIntro == <<"i", "n", "t", "r", "o">>
KeyFooter == <<"f", "o", "o", "t", "e", "r">>
KeyMeze == <<"m", "e", "z", "e">>
Digits == <<"1", "2", "3", "4", "5", "6", "7", "8", "9">>

\* chunkSection: { id: `${key}:${i + 1}`, key, text }
Chunk(key, i, text) ==
  [id |-> key \o <<":">> \o <<Digits[i]>>, key |-> key, text |-> text]

ChunkIndex(hasIntro, marked, hasFooter, long) ==
  (IF hasIntro THEN << Chunk(KeyIntro, 1, <<"a">>) >> ELSE <<>>)
  \o [i \in 1..marked |->
        Chunk(KeyMeze, i, IF long /\ i = 1
                          THEN Rep(MAX_MENU_CHUNK, "a") ELSE <<"b">>)]
  \o (IF hasFooter THEN << Chunk(KeyFooter, 1, <<"c">>) >> ELSE <<>>)

InitContext ==
  /\ ColdStart
  /\ streamify = TRUE
  /\ \E hasIntro, hasFooter, long \in BOOLEAN, marked \in 1..MaxMarked,
        intent \in {"cheapest", "general"} :
       LET chunks == ChunkIndex(hasIntro, marked, hasFooter, long)
       IN  \E embeddings \in [1..Len(chunks) -> SelVectors] :
             /\ long => \A i \in 1..Len(chunks) : embeddings[i] = SelQuery
             /\ fcall = [fn |-> "menuContext",
                         arg |-> [query |-> SelQuery, chunks |-> chunks,
                                  embeddings |-> embeddings, intent |-> intent],
                         done |-> FALSE, val |-> <<>>]

\* buildMenuContextForQuery selects the chunks and builds the context.
Context ==
  /\ fcall.fn = "menuContext"
  /\ ~fcall.done
  /\ fcall' =
       [fcall EXCEPT !.done = TRUE,
                     !.val = menuContext(fcall.arg.chunks,
                                         Selected(fcall.arg.query,
                                                  fcall.arg.embeddings,
                                                  fcall.arg.intent))]
  /\ UNCHANGED <<now, rateState, spamState, inFlight, cache, cachedMenuText,
                 cachedApiKey, cachedMenuChunks, cachedMenuEmbeddings,
                 cachedIntentEmbeddings, req,
                 nsub, hist, stored, streamify>>

NextContext == Context

SpecContext == InitContext /\ [][NextContext]_vars

\* ------------------------------------------------------------ intent runs
\* A query vector and the vectors of the four prototypes.
InitIntent ==
  /\ ColdStart
  /\ streamify = TRUE
  /\ \E q \in Vectors, e \in [1..Len(IntentKeys) -> Vectors] :
       fcall = [fn |-> "detectIntent", arg |-> [query |-> q, embeddings |-> e],
                done |-> FALSE, val |-> <<>>]

\* buildMenuContextForQuery calls detectIntent on the query embedding.
DetectIntent ==
  /\ fcall.fn = "detectIntent"
  /\ ~fcall.done
  /\ fcall' = [fcall EXCEPT !.done = TRUE,
                            !.val = detectIntent(fcall.arg.query,
                                                 fcall.arg.embeddings)]
  /\ UNCHANGED <<now, rateState, spamState, inFlight, cache, cachedMenuText,
                 cachedApiKey, cachedMenuChunks, cachedMenuEmbeddings,
                 cachedIntentEmbeddings, req,
                 nsub, hist, stored, streamify>>

NextIntent == DetectIntent

SpecIntent == InitIntent /\ [][NextIntent]_vars

\* ------------------------------------------------------------ cache key runs
\* Two requests: category, question and history of each.  Categories: none
\* sent, valid ones and an unknown one.  Questions: short ones, one that
\* holds the separators of the key, one of 600 characters and two longer
\* ones with the same first 600.  Histories: none, one turn, four and five
\* turns with the same last four, a turn of 140 characters and a longer one.
KeyCategories == { <<>>, <<"f", "u", "l", "l">>, <<"i", "n", "f", "o">>, <<"x">> }
KeyMessages ==
  { <<"a">>, <<"b">>, <<"a", ":", ":", "u", "s", "e", "r", ":", "c">>,
    Rep(600, "a"), Rep(600, "a") \o <<"b">>, Rep(600, "a") \o <<"c">> }
Turn(role, content) == [role |-> role, content |-> content]
RoleUser == <<"u", "s", "e", "r">>
RoleAssistant == <<"a", "s", "s", "i", "s", "t", "a", "n", "t">>
FourTurns ==
  << Turn(RoleUser, <<"a">>), Turn(RoleAssistant, <<"b">>),
     Turn(RoleUser, <<"c">>), Turn(RoleAssistant, <<"d">>) >>
KeyHistories ==
  { <<>>, << Turn(RoleUser, <<"c">>) >>, << Turn(RoleAssistant, <<"c">>) >>,
    FourTurns, << Turn(RoleUser, <<"e">>) >> \o FourTurns,
    << Turn(RoleUser, Rep(140, "a")) >>,
    << Turn(RoleUser, Rep(140, "a") \o <<"b">>) >> }
KeyRequests ==
  [category : KeyCategories, message : KeyMessages, history : KeyHistories]

InitCacheKey ==
  /\ ColdStart
  /\ streamify = TRUE
  /\ \E a, b \in KeyRequests :
       fcall = [fn |-> "makeCacheKey", arg |-> <<a, b>>, done |-> FALSE,
                val |-> <<>>]

\* computeReply / handleChatStream make the cache key of a request.
MakeCacheKey ==
  /\ fcall.fn = "makeCacheKey"
  /\ ~fcall.done
  /\ fcall' =
       [fcall EXCEPT !.done = TRUE,
                     !.val = [i \in 1..2 |->
                                makeCacheKey(fcall.arg[i].message,
                                             fcall.arg[i].history,
                                             fcall.arg[i].category)]]
  /\ UNCHANGED <<now, rateState, spamState, inFlight, cache, cachedMenuText,
                 cachedApiKey, cachedMenuChunks, cachedMenuEmbeddings,
                 cachedIntentEmbeddings, req,
                 nsub, hist, stored, streamify>>

NextCacheKey == MakeCacheKey

SpecCacheKey == InitCacheKey /\ [][NextCacheKey]_vars

\* ------------------------------------------------------------ identity runs
\* Addresses: none, the text "unknown", one of 8 characters, one of 9.
Addr8 == <<"1", "0", ".", "0", ".", "0", ".", "1">>
Addresses == { <<>>, Unknown, Addr8, Addr8 \o <<"2">> }

\* clientId values: missing, a number, and strings: empty, of 7 characters,
\* of 8 (the text of an address), of 9.
ClientIds ==
  { [type |-> "undefined", val |-> <<>>], [type |-> "number", val |-> <<>>] }
  \cup { [type |-> "string", val |-> v] :
            v \in { <<>>, Unknown, Addr8, Addr8 \o <<"2">> } }

Identities == [clientId : ClientIds, ip : Addresses]

InitKey ==
  /\ ColdStart
  /\ streamify = TRUE
  /\ \E a, b \in Identities :
       fcall = [fn |-> "getClientKey", arg |-> <<a, b>>, done |-> FALSE,
                val |-> <<>>]

\* handleChatBuffered / handleChatStream call getClientKey, for two requests.
GetClientKey ==
  /\ fcall.fn = "getClientKey"
  /\ ~fcall.done
  /\ fcall' = [fcall EXCEPT !.done = TRUE,
                 !.val = [i \in 1..2 |->
                            getClientKey(fcall.arg[i].clientId, fcall.arg[i].ip)]]
  /\ UNCHANGED <<now, rateState, spamState, inFlight, cache, cachedMenuText,
                 cachedApiKey, cachedMenuChunks, cachedMenuEmbeddings,
                 cachedIntentEmbeddings, req,
                 nsub, hist, stored, streamify>>

NextKey == GetClientKey

SpecKey == InitKey /\ [][NextKey]_vars

\* The generation output of the first request, and the answer it makes.
WarmOutput == << <<"a">>, <<"b", " ">> >>
WarmReply == <<"a", "b">>

\* The first request of the process, completed: k2 asked q1 on the streaming
\* path, every external call was made and the answer was stored.  at is the
\* time recorded for it (0 when the history of the keys is not recorded).
FirstReq(at) ==
  [IdleReq EXCEPT !.pc = "done", !.key = "k2", !.mode = "stream", !.at = at,
                  !.acq = TRUE, !.rel = 1,
                  !.ext = 4 + MenuChunks + IntentCount, !.gen = TRUE,
                  !.touched = TRUE, !.reply = WarmReply, !.full = WarmReply,
                  !.status = 200, !.out = WarmOutput,
                  !.wire = <<Open, Delta(<<"a">>), Delta(<<"b", " ">>), Done, End>>]

\* The process at time t after its first request: client k2 asked q1 at
\* StartTime (its only request so far) and the answer was stored in the same
\* millisecond.
AfterFirstRequest(t) ==
  /\ now = t
  /\ rateState = Put(EmptyMap, "k2", [windowStart |-> StartTime, count |-> 1,
                                      resetAt |-> StartTime + RL_WINDOW_MS])
  /\ spamState = Put(EmptyMap, "k2", [windowStart |-> StartTime, count |-> 1,
                                      blockedUntil |-> 0, lastAt |-> StartTime])
  /\ inFlight = {}
  /\ cache = Put(EmptyMap, "q1", [ts |-> StartTime, reply |-> WarmReply])
  /\ cachedMenuText = TRUE
  /\ cachedApiKey = TRUE
  /\ cachedMenuChunks = Defined(MenuChunkList)
  /\ cachedMenuEmbeddings = Defined(MenuVectors(1))
  /\ cachedIntentEmbeddings = TRUE
  /\ req = [r \in Slots |-> IF r = 1 THEN FirstReq(0) ELSE IdleReq]
  /\ hist = [k \in Keys |-> NoHist]
  /\ stored = cache
  /\ streamify = TRUE
  /\ fcall = NoCall

\* The cache near the expiry of an entry: CACHE_TTL - MIN_INTERVAL_MS have
\* passed since the first request.
CacheStateNearExpiry ==
  AfterFirstRequest(StartTime + CACHE_TTL - MIN_INTERVAL_MS)

\* Every entry of the first request has expired: CACHE_TTL and a millisecond
\* have passed, which is more than the rate window and the spam window.
StaleState == AfterFirstRequest(StartTime + CACHE_TTL + 1)

InitCache == CacheStateNearExpiry /\ nsub = 0

\* Two clients asking the same question around the expiry of its entry; the
\* process keeps the corpus and the secret, so neither is fetched.
NextCache ==
  \/ Tick(MIN_INTERVAL_MS, StartTime + CACHE_TTL + (MainTicks - 1) * MIN_INTERVAL_MS)
  \/ \E r \in Slots, k \in Keys, m \in Modes, q \in CacheKeys :
        Submit(r, k, m, q, MaxCacheSubmits, FALSE)
  \/ \E r \in Slots : AwaitRetrieval(r)
  \/ \E r \in Slots, out \in GenOutputs : AwaitGenerate(r, out)
  \/ \E r \in Slots : StreamPart(r)
  \/ \E r \in Slots : StreamEnd(r)
  \/ \E r \in Slots : Fail(r)

SpecCache == InitCache /\ [][NextCache]_vars

\* Client k1 asking after every entry of k2's only request has expired; k2
\* does not come back.  Requests are handled as long as there are any.
InitEvict == StaleState /\ nsub = 0

NextEvict ==
  \/ Tick(MIN_INTERVAL_MS, StartTime + CACHE_TTL + 1 + MainTicks * MIN_INTERVAL_MS)
  \/ \E r \in Slots, m \in Modes, q \in CacheKeys :
        Submit(r, "k1", m, q, MaxEvictSubmits, FALSE)
  \/ \E r \in Slots : AwaitRetrieval(r)
  \/ \E r \in Slots, out \in GenOutputs : AwaitGenerate(r, out)
  \/ \E r \in Slots : StreamPart(r)
  \/ \E r \in Slots : StreamEnd(r)
  \/ \E r \in Slots : Fail(r)

SpecEvict == InitEvict /\ [][NextEvict]_vars /\ WF_vars(NextEvict)

\* ------------------------------------------------------------ governance runs
\* One client, k1, whose every request is answered from the cache: k2 asked q1
\* at StartTime and the answer was stored in the same millisecond.  A run
\* starts after one of three histories of k1, each a sequence of accepted
\* requests that the rate limiter and the spam guard let pass:
\*   "first"  no request yet;
\*   "rate"   11 requests, 1000 ms apart, the first at StartTime;
\*   "spam"   30 requests: 12, 7 and 11 of them MIN_INTERVAL_MS apart, the
\*            three groups starting RL_WINDOW_MS + 1 after one another.
GovHistories == {"first", "rate", "spam"}

GovLastAt(h) ==
  IF h = "rate" THEN StartTime + 10 * 1000
  ELSE IF h = "spam" THEN StartTime + 2 * (RL_WINDOW_MS + 1) + 10 * MIN_INTERVAL_MS
  ELSE StartTime

GovRate(h) ==
  IF h = "rate"
  THEN [windowStart |-> StartTime, count |-> 11,
        resetAt |-> StartTime + RL_WINDOW_MS]
  ELSE [windowStart |-> StartTime + 2 * (RL_WINDOW_MS + 1), count |-> 11,
        resetAt |-> StartTime + 2 * (RL_WINDOW_MS + 1) + RL_WINDOW_MS]

GovSpam(h) ==
  [windowStart |-> StartTime, count |-> IF h = "rate" THEN 11 ELSE 30,
   blockedUntil |-> 0, lastAt |-> GovLastAt(h)]

\* The last request of the history: a cache hit on the streaming path, or,
\* with no request of k1 yet, the request of k2.
GovLastReq(h) ==
  IF h = "first" THEN FirstReq(StartTime)
  ELSE [IdleReq EXCEPT !.pc = "done", !.mode = "stream", !.at = GovLastAt(h),
                       !.acq = TRUE, !.rel = 1, !.cached = TRUE,
                       !.reply = WarmReply, !.status = 200,
                       !.wire = StreamHitWire(WarmReply),
                       !.fresh = TRUE, !.freshReply = WarmReply]

GovHist(h) ==
  [NoHist EXCEPT !.last = [at |-> GovLastAt(h), res |-> "OK", retry |-> 0],
                 !.prev = [at |-> GovLastAt(h) - (IF h = "rate" THEN 1000 ELSE MIN_INTERVAL_MS),
                           res |-> "OK", retry |-> 0],
                 !.gwStart = GovRate(h).windowStart,
                 !.gwCalls = 11]

GovStateAfter(h) ==
    /\ now = GovLastAt(h)
    /\ rateState =
         LET rs == Put(EmptyMap, "k2", [windowStart |-> StartTime, count |-> 1,
                                        resetAt |-> StartTime + RL_WINDOW_MS])
         IN  IF h = "first" THEN rs ELSE Put(rs, "k1", GovRate(h))
    /\ spamState =
         LET ss == Put(EmptyMap, "k2", [windowStart |-> StartTime, count |-> 1,
                                        blockedUntil |-> 0, lastAt |-> StartTime])
         IN  IF h = "first" THEN ss ELSE Put(ss, "k1", GovSpam(h))
    /\ inFlight = {}
    /\ cache = Put(EmptyMap, "q1", [ts |-> StartTime, reply |-> WarmReply])
    /\ cachedMenuText = TRUE
    /\ cachedApiKey = TRUE
    /\ cachedMenuChunks = Defined(MenuChunkList)
    /\ cachedMenuEmbeddings = Defined(MenuVectors(1))
    /\ cachedIntentEmbeddings = TRUE
    /\ req = [r \in Slots |-> IF r = 1 THEN GovLastReq(h) ELSE IdleReq]
    /\ hist = [k \in Keys |->
                IF k = "k2" THEN HistAfter(NoHist, StartTime, "OK", 0, 1)
                ELSE IF h # "first" THEN GovHist(h) ELSE NoHist]
    /\ stored = cache
    /\ streamify = TRUE
    /\ fcall = NoCall

InitGov == (\E h \in GovHistories : GovStateAfter(h)) /\ nsub = 0

\* The time k1 lets pass between one submission and the next: none, the
\* minimum interval, a rate window and a millisecond, or the retry-after of
\* the last answer.
GovGaps == {MIN_INTERVAL_MS, RL_WINDOW_MS + 1, 1000 * req[1].retry}

NextGov ==
  \/ \E d \in GovGaps :
        /\ now = req[1].at
        /\ Tick(d, now + d)
  \/ \E m \in Modes : Submit(1, "k1", m, "q1", MaxGovSubmits, TRUE)

SpecGov == InitGov /\ [][NextGov]_vars

\* ------------------------------------------------------------ stage runs
\* Client k1 asking a question that is not in the cache, so that its requests
\* run and overlap, after no request of its own or after the 11 requests of
\* the history "rate", which leave one slot of its rate window.
StageHistories == {"first", "rate"}

InitStages == (\E h \in StageHistories : GovStateAfter(h)) /\ nsub = 0

NextStages ==
  \/ \E h \in StageHistories :
        /\ now >= GovLastAt(h)
        /\ Tick(MIN_INTERVAL_MS, GovLastAt(h) + MainTicks * MIN_INTERVAL_MS)
  \/ \E r \in Slots, m \in Modes :
        Submit(r, "k1", m, "q2", MaxStageSubmits, FALSE)
  \/ \E r \in Slots : AwaitRetrieval(r)
  \/ \E r \in Slots, out \in GenOutputs : AwaitGenerate(r, out)
  \/ \E r \in Slots : StreamPart(r)
  \/ \E r \in Slots : StreamEnd(r)
  \/ \E r \in Slots : Fail(r)

SpecStages == InitStages /\ [][NextStages]_vars

\* ------------------------------------------------------------ stream reader
\* The bytes of the event stream and the chat widget's reader of them.  The
\* texts are of ASCII characters, one byte each, so that decoding a read is
\* the identity.
DataPrefix ==
  <<"d", "a", "t", "a", ":">>
DeltaOpen ==
  <<"{", "\"", "d", "e", "l", "t", "a", "\"", ":", "\"">>
DeltaClose ==
  <<"\"", "}">>
CachedClose ==
  <<"\"", ",", "\"", "c", "a", "c", "h", "e", "d", "\"", ":", "t", "r", "u",
  "e", "}">>
ErrorJson ==
  <<"{", "\"", "e", "r", "r", "o", "r", "\"", ":", "\"", "S", "E", "R", "V",
  "E", "R", "_", "E", "R", "R", "O", "R", "\"", "}">>
DoneText ==
  <<"[", "D", "O", "N", "E", "]">>
\* json(500, {ok: false, error: "SERVER_ERROR"}).body
ErrorBody ==
  <<"{", "\"", "o", "k", "\"", ":", "f", "a", "l", "s", "e", ",", "\"", "e",
  "r", "r", "o", "r", "\"", ":", "\"", "S", "E", "R", "V", "E", "R", "_",
  "E", "R", "R", "O", "R", "\"", "}">>

\* JSON.stringify of the characters of a string: the quote, the backslash and
\* the line feed are escaped.
RECURSIVE Escaped(_)
Escaped(str) ==
  IF str = <<>> THEN <<>>
  ELSE (IF Head(str) = "\n" THEN <<"\\", "n">>
        ELSE IF Head(str) \in {"\"", "\\"} THEN <<"\\", Head(str)>>
        ELSE <<Head(str)>>) \o Escaped(Tail(str))

\* JSON.parse of the inside of a string literal: ok is FALSE where it is not
\* one (a quote or a line feed unescaped, a backslash with nothing after).
RECURSIVE Unescaped(_)
Unescaped(lit) ==
  IF lit = <<>> THEN [ok |-> TRUE, text |-> <<>>]
  ELSE IF Head(lit) \in {"\"", "\n"} THEN [ok |-> FALSE, text |-> <<>>]
  ELSE IF Head(lit) = "\\"
  THEN IF Len(lit) < 2 \/ lit[2] \notin {"n", "\"", "\\"}
       THEN [ok |-> FALSE, text |-> <<>>]
       ELSE LET rest == Unescaped(SubSeq(lit, 3, Len(lit)))
            IN  [ok |-> rest.ok,
                 text |-> <<IF lit[2] = "n" THEN "\n" ELSE lit[2]>> \o rest.text]
  ELSE LET rest == Unescaped(Tail(lit))
       IN  [ok |-> rest.ok, text |-> <<Head(lit)>> \o rest.text]

\* What one write of the handlers puts on the wire.  The JSON payload after
\* an event stream is handlerImpl's answer to the rethrown error.
Bytes(e) ==
  IF e.ev = "delta"
  THEN DataPrefix \o <<" ">> \o DeltaOpen \o Escaped(e.data) \o DeltaClose \o <<"\n", "\n">>
  ELSE IF e.ev = "hit"
  THEN DataPrefix \o <<" ">> \o DeltaOpen \o Escaped(e.data) \o CachedClose \o <<"\n", "\n">>
  ELSE IF e.ev = "error"
  THEN DataPrefix \o <<" ">> \o ErrorJson \o <<"\n", "\n">>
  ELSE IF e.ev = "done"
  THEN DataPrefix \o <<" ">> \o DoneText \o <<"\n", "\n">>
  ELSE IF e.ev = "json" THEN ErrorBody
  ELSE <<>>

RECURSIVE WireBytes(_)
WireBytes(w) == IF w = <<>> THEN <<>> ELSE Bytes(Head(w)) \o WireBytes(Tail(w))

\* String.prototype.startsWith
startsWith(str, p) == Len(str) >= Len(p) /\ SubSeq(str, 1, Len(p)) = p

\* JSON.parse(data).delta || "" for the texts the handlers write; ok is FALSE
\* where JSON.parse throws, as it does for every other text that begins as
\* one of them.
ParsedDelta(data) ==
  LET inside(close) == SubSeq(data, Len(DeltaOpen) + 1, Len(data) - Len(close))
      fits(close) ==
        /\ Len(data) >= Len(DeltaOpen) + Len(close)
        /\ startsWith(data, DeltaOpen)
        /\ SubSeq(data, Len(data) - Len(close) + 1, Len(data)) = close
        /\ Unescaped(inside(close)).ok
  IN  IF fits(DeltaClose) THEN [ok |-> TRUE, delta |-> Unescaped(inside(DeltaClose)).text]
      ELSE IF fits(CachedClose)
      THEN [ok |-> TRUE, delta |-> Unescaped(inside(CachedClose)).text]
      ELSE IF data \in {ErrorJson, ErrorBody} THEN [ok |-> TRUE, delta |-> <<>>]
      ELSE [ok |-> FALSE, delta |-> <<>>]

\* The for loop of fetchReplyStream over the lines of one read.
RECURSIVE ReadLines(_, _)
ReadLines(lines, st) ==
  IF lines = <<>> THEN st
  ELSE LET line == Head(lines)
           data == Trim(SubSeq(line, 6, Len(line)))
       IN  IF ~startsWith(line, DataPrefix) \/ data = <<>>
           THEN ReadLines(Tail(lines), st)
           ELSE IF data = DoneText THEN [st EXCEPT !.done = TRUE]
           ELSE IF ~ParsedDelta(data).ok THEN [st EXCEPT !.done = TRUE, !.thrown = TRUE]
           ELSE ReadLines(Tail(lines),
                          [st EXCEPT !.fullText = @ \o ParsedDelta(data).delta])

\* The while loop over the reads: chunk.split("\n") with nothing kept from
\* one read to the next.
RECURSIVE ReadLoop(_, _)
ReadLoop(reads, st) ==
  IF st.done \/ reads = <<>> THEN st
  ELSE ReadLoop(Tail(reads), ReadLines(Split(Head(reads)), st))

\* RestaurantChatbot.fetchReplyStream on an event stream that arrives as the
\* reads: the text returned, or thrown if JSON.parse threw.
fetchReplyStream(reads) ==
  LET st == ReadLoop(reads, [fullText |-> <<>>, done |-> FALSE, thrown |-> FALSE])
  IN  [thrown |-> st.thrown,
       text |-> IF st.thrown THEN <<>> ELSE Trim(st.fullText)]

\* The bytes cut into reads at the places of cuts.
ReadsOf(bytes, cuts) ==
  LET ends == cuts \cup {Len(bytes)}
      nth(k) == IF k = 0 THEN 0
                ELSE CHOOSE p \in ends : Cardinality({q \in ends : q < p}) = k - 1
  IN  [j \in 1..Cardinality(ends) |-> SubSeq(bytes, nth(j - 1) + 1, nth(j))]

\* handleChatStream, cache hit: the event of the cached answer.
Hit(d) == Event("hit", d)

\* The streams read: an answer of two fragments, a cached answer, and a
\* failure after one fragment, which handlerImpl answers once more.
ReaderWires ==
  { StreamEndWire(<<Open, Delta(<<" ", "a">>), Delta(<<"\"", "\n">>)>>),
    <<Open, Hit(<<"a", "b">>), Done, End>>,
    HandlerCatchWire(StreamCatchWire(<<Open, Delta(<<"a">>)>>)) }

InitReader ==
  /\ ColdStart
  /\ streamify = TRUE
  /\ \E w \in ReaderWires :
       \E at \in [1 .. MaxReads - 1 -> 0 .. Len(WireBytes(w)) - 1] :
         fcall = [fn |-> "fetchReplyStream",
                  arg |-> [wire |-> w,
                           cuts |-> {at[i] : i \in 1 .. MaxReads - 1} \ {0}],
                  done |-> FALSE, val |-> <<>>]

FetchReplyStream ==
  /\ fcall.fn = "fetchReplyStream"
  /\ ~fcall.done
  /\ fcall' =
       [fcall EXCEPT !.done = TRUE,
                     !.val = fetchReplyStream(ReadsOf(WireBytes(fcall.arg.wire),
                                                      fcall.arg.cuts))]
  /\ UNCHANGED <<now, rateState, spamState, inFlight, cache, cachedMenuText,
                 cachedApiKey, cachedMenuChunks, cachedMenuEmbeddings,
                 cachedIntentEmbeddings, req,
                 nsub, hist, stored, streamify>>

NextReader == FetchReplyStream

SpecReader == InitReader /\ [][NextReader]_vars

\* ------------------------------------------------------------ waiting runs
\* Client k1 asking a question that is not in the cache, after one of the
\* three histories, and then, once none of its requests is running, staying
\* away for the larger of the spam window and what is left of its block.
BlockedUntil(k) == IF Has(spamState, k) THEN spamState[k].blockedUntil ELSE 0

LockoutWait(k) == Max(SPAM_WINDOW_MS, BlockedUntil(k) - now)

LockoutLimit == GovLastAt("spam") + MainTicks * MIN_INTERVAL_MS + SPAM_WINDOW_MS

NextLockout ==
  \/ \E h \in GovHistories :
        /\ now >= GovLastAt(h)
        /\ Tick(MIN_INTERVAL_MS, GovLastAt(h) + MainTicks * MIN_INTERVAL_MS)
  \/ /\ ~Outstanding("k1")
     /\ Tick(LockoutWait("k1"), LockoutLimit)
  \/ \E r \in Slots, m \in Modes :
        Submit(r, "k1", m, "q2", MaxStageSubmits, FALSE)
  \/ \E r \in Slots : AwaitRetrieval(r)
  \/ \E r \in Slots, out \in GenOutputs : AwaitGenerate(r, out)
  \/ \E r \in Slots : StreamPart(r)
  \/ \E r \in Slots : StreamEnd(r)
  \/ \E r \in Slots : Fail(r)

SpecLockout == InitGov /\ [][NextLockout]_vars

\* ------------------------------------------------------------ spam guard runs
\* Calls of applySpamGuardOrThrow for the key k1, from a process that has
\* seen no request: the calls come at the minimum interval until the count
\* of the window is near SPAM_LIMIT, and from then on at the time of the
\* last call or after the minimum interval, the time of a window block, or
\* a window and a millisecond.  nsub counts the calls.
SpamGaps == {MIN_INTERVAL_MS, SPAM_BLOCK_MS, SPAM_WINDOW_MS + 1}
NearSpamLimit ==
  Has(spamState, "k1") /\ spamState["k1"].count >= SPAM_LIMIT - 2

InitSpamCalls ==
  /\ ColdStart
  /\ streamify = TRUE
  /\ fcall = [fn |-> "applySpamGuardOrThrow", arg |-> 0, done |-> FALSE,
              val |-> [err |-> "", retry |-> 0]]

SpamCall ==
  /\ fcall.fn = "applySpamGuardOrThrow"
  /\ fcall.done /\ fcall.arg = now => NearSpamLimit
  /\ nsub < MaxSpamCalls
  /\ nsub' = nsub + 1
  /\ LET sg == applySpamGuardOrThrow(spamState, "k1", now)
     IN  /\ spamState' = sg.state
         /\ fcall' = [fcall EXCEPT !.arg = now, !.done = TRUE,
                                   !.val = [err |-> sg.err, retry |-> sg.retry]]
  /\ UNCHANGED <<now, rateState, inFlight, cache, cachedMenuText,
                 cachedApiKey, cachedMenuChunks, cachedMenuEmbeddings,
                 cachedIntentEmbeddings, req, hist, stored, streamify>>

NextSpamCalls ==
  \/ \E d \in SpamGaps :
        /\ fcall.done /\ fcall.arg = now
        /\ d # MIN_INTERVAL_MS => NearSpamLimit
        /\ Tick(d, StartTime + MaxSpamCalls * (SPAM_WINDOW_MS + 1))
  \/ SpamCall

SpecSpamCalls == InitSpamCalls /\ [][NextSpamCalls]_vars

\* ------------------------------------------------------------ histories
\* The states the cache runs and the governance runs start from are states of
\* the process: each is reached from Init by the actions above, along the one
\* behaviour of SpecHistory*.  k2 asks q1 on the streaming path at StartTime
\* and is answered in that millisecond; then, for "cache", time passes; for
\* "rate" and "spam", k1 submits at the times HistoryAt gives.
HistoryLen(h) == IF h = "rate" THEN 11 ELSE IF h = "spam" THEN 30 ELSE 0

\* The time of request n (from 0) of k1 in history h.
HistoryAt(h, n) ==
  IF h = "rate" THEN StartTime + 1000 * n
  ELSE IF n < 12 THEN StartTime + MIN_INTERVAL_MS * n
  ELSE IF n < 19 THEN StartTime + (RL_WINDOW_MS + 1) + MIN_INTERVAL_MS * (n - 12)
  ELSE StartTime + 2 * (RL_WINDOW_MS + 1) + MIN_INTERVAL_MS * (n - 19)

HistoryNext(h) ==
  LET n == SpamCount(spamState, "k1") IN
  IF cache = EmptyMap /\ req[1].pc = "idle"
  THEN Submit(1, "k2", "stream", "q1", 1, h \notin {"cache", "stale"})
  ELSE IF req[1].pc = "menu" THEN AwaitMenu(1)
  ELSE IF req[1].pc = "apikey" THEN AwaitKey(1)
  ELSE IF req[1].pc = "chunks" THEN AwaitChunk(1, 1)
  ELSE IF req[1].pc = "retrieval" THEN AwaitRetrieval(1)
  ELSE IF req[1].pc = "intents" THEN AwaitIntent(1)
  ELSE IF req[1].pc = "generate" THEN AwaitGenerate(1, WarmOutput)
  ELSE IF req[1].pc = "streaming" /\ req[1].parts # <<>> THEN StreamPart(1)
  ELSE IF req[1].pc = "streaming" THEN StreamEnd(1)
  ELSE IF h = "cache"
  THEN now = StartTime /\ Tick(CACHE_TTL - MIN_INTERVAL_MS, now + CACHE_TTL)
  ELSE IF h = "stale"
  THEN now = StartTime /\ Tick(CACHE_TTL + 1, now + CACHE_TTL + 1)
  ELSE IF n >= HistoryLen(h) THEN FALSE
  ELSE IF now = HistoryAt(h, n)
  THEN Submit(1, "k1", "stream", "q1", 1 + HistoryLen(h), TRUE)
  ELSE Tick(HistoryAt(h, n) - now, HistoryAt(h, n))

SpecHistoryFirst == Init /\ [][HistoryNext("first")]_vars
SpecHistoryRate  == Init /\ [][HistoryNext("rate")]_vars
SpecHistorySpam  == Init /\ [][HistoryNext("spam")]_vars
SpecHistoryCache == Init /\ [][HistoryNext("cache")]_vars
SpecHistoryStale == Init /\ [][HistoryNext("stale")]_vars

\* Each of these is violated under the specification of its history: the
\* behaviour ends in the state the runs start from.
UnreachedFirst == ~GovStateAfter("first")
UnreachedRate  == ~GovStateAfter("rate")
UnreachedSpam  == ~GovStateAfter("spam")
UnreachedCache == ~CacheStateNearExpiry
UnreachedStale == ~StaleState

\* ------------------------------------------------------------ claims
\* The history of the governed client.
H == hist["k1"]

\* C1: within one rate window (the calls arriving no more than RL_WINDOW_MS
\* after the call that opened it) the first RL_LIMIT calls of a key pass the
\* rate limiter, and every later call of the window fails RATE_LIMIT with a
\* retry-after of at least one second; a call arriving more than RL_WINDOW_MS
\* after the window's start opens a new window (it is call 1 of it) and
\* passes.  The limiter's own window and count are those of the history.
C1_RateWindow ==
  H.gwCalls > 0 =>
    /\ H.gwCalls <= RL_LIMIT => H.last.res # "RATE_LIMIT"
    /\ H.gwCalls > RL_LIMIT => H.last.res = "RATE_LIMIT" /\ H.last.retry >= 1
    /\ rateState["k1"].windowStart = H.gwStart
    /\ rateState["k1"].count = H.gwCalls

\* C1, its case: a call was rejected by the rate limiter and the next call,
\* more than RL_WINDOW_MS after the window's start, opened a window and passed.
C1_Witness ==
  /\ H.prev.res = "RATE_LIMIT"
  /\ H.gwCalls = 1
  /\ H.last.res = "OK"

\* The errors of the rate limiter and the spam guard, and of governance.
Throttle == {"RATE_LIMIT", "COOLDOWN", "TOO_FAST", "SPAM_WINDOW"}
GovErrors == Throttle \cup {"BUSY"}

\* Slot r holds a submission with a message (running or answered).
Submitted(r) == req[r].pc # "idle" /\ req[r].err # "NO_MESSAGE"

\* C2: in every reachable state, whatever the interleaving of buffered and
\* streaming requests at their awaits, no two requests of one client key are
\* between the acquisition of the in-flight entry and its release.
C2_OnePerKey ==
  \A a, b \in Slots :
    (a # b /\ Holding(a) /\ Holding(b)) => req[a].key # req[b].key

\* C2, its case: a request holds the entry of its key while a request of the
\* same key on the other path was turned away.
C2_Witness ==
  \E a, b \in Slots :
    /\ a # b
    /\ Holding(a)
    /\ req[b].err = "BUSY"
    /\ req[b].key = req[a].key
    /\ req[b].mode # req[a].mode

\* C3: a request that acquired the in-flight entry of its key releases it
\* exactly once when its computation ends, whatever the outcome and on both
\* paths (never before, never twice), and the in-flight set holds exactly the
\* keys of the requests still running.
C3_ReleaseOnce ==
  /\ \A r \in Slots :
       /\ req[r].rel <= 1
       /\ req[r].rel = 1 => req[r].acq /\ req[r].pc = "done"
       /\ (req[r].acq /\ req[r].pc = "done") => req[r].rel = 1
       /\ Running(r) => Holding(r)
  /\ inFlight = {req[r].key : r \in {x \in Slots : Holding(x)}}

\* C3, its case: a streaming request failed in mid-stream, after a fragment
\* was forwarded; it released its key once and no request of the key runs.
C3_Witness ==
  \E r \in Slots :
    /\ req[r].mode = "stream"
    /\ req[r].err = "SERVER_ERROR"
    /\ \E i \in 1..Len(req[r].wire) : req[r].wire[i].ev = "delta"
    /\ req[r].rel = 1
    /\ ~Outstanding(req[r].key)
    /\ req[r].key \notin inFlight

\* C4 as stated: a submission made while a request of the same client is
\* outstanding fails BUSY, and one made while none is outstanding (the
\* earlier ones have completed) is accepted.
C4_Stated ==
  \A r \in Slots :
    Submitted(r) =>
      /\ req[r].over => req[r].err = "BUSY"
      /\ ~req[r].over => req[r].err \notin GovErrors

\* C4, amended: a submission made while a request of the same client is
\* outstanding is rejected, with BUSY unless the rate limiter or the spam
\* guard, which run before the busy guard, reject it first; a submission made
\* while none is outstanding is never rejected with BUSY.
C4_Busy ==
  \A r \in Slots :
    Submitted(r) =>
      /\ req[r].over => req[r].err \in GovErrors
      /\ ~req[r].over => req[r].err # "BUSY"

\* C4, its case: a submission overlapping another was rejected BUSY, and a
\* submission made after a request had completed (it was answered from the
\* answer that request stored) was accepted.
C4_Witness ==
  \E a, b \in Slots :
    /\ a # b
    /\ req[b].over /\ req[b].err = "BUSY"
    /\ ~req[a].over /\ req[a].cached /\ req[a].status = 200
    /\ req[a].key = req[b].key

\* A submission of the client was made after its last block began and before
\* the block ended; kind is the error that began the block.
InBlock(kind) ==
  /\ H.block.kind = kind
  /\ H.block.seen
  /\ H.last.at < H.block.until

\* The last two submissions of the client were less than the minimum interval
\* apart and the earlier one was accepted.
TooFastCase ==
  /\ H.prev.res = "OK"
  /\ H.last.at - H.prev.at < MIN_INTERVAL_MS

\* C5 as stated: a submission less than MIN_INTERVAL_MS after an accepted one
\* fails TOO_FAST with retry-after 3, and every submission before the
\* 3-second cooldown expires fails COOLDOWN.
C5_Stated ==
  /\ TooFastCase => H.last.res = "TOO_FAST" /\ H.last.retry = 3
  /\ InBlock("TOO_FAST") => H.last.res = "COOLDOWN"

\* C5, amended: a submission less than MIN_INTERVAL_MS after an accepted one
\* is rejected, with TOO_FAST unless the rate limiter, which runs first,
\* rejects it with RATE_LIMIT; TOO_FAST carries retry-after 3 and starts a
\* cooldown of TOO_FAST_BLOCK_MS; every submission before the cooldown expires
\* is rejected, with COOLDOWN unless the rate limiter rejects it first, and
\* the retry-after of COOLDOWN is the rest of the cooldown in seconds, rounded
\* up: at most 3, at least 1, never more than the one before.
C5_Cooldown ==
  /\ TooFastCase => H.last.res \in {"TOO_FAST", "RATE_LIMIT"}
  /\ H.last.res = "TOO_FAST" =>
       /\ H.last.retry = 3
       /\ spamState["k1"].blockedUntil = H.last.at + TOO_FAST_BLOCK_MS
  /\ InBlock("TOO_FAST") =>
       /\ H.last.res \in {"COOLDOWN", "RATE_LIMIT"}
       /\ spamState["k1"].blockedUntil = H.block.until
       /\ H.last.res = "COOLDOWN" =>
            /\ H.last.retry = Max(1, Ceil(H.block.until - H.last.at, 1000))
            /\ H.last.retry <= 3
       /\ H.block.rlast <= H.block.rprev

\* C5, its case: after a TOO_FAST, two submissions during the cooldown failed
\* COOLDOWN, the later with a smaller retry-after.
C5_Witness ==
  /\ InBlock("TOO_FAST")
  /\ H.last.res = "COOLDOWN"
  /\ H.prev.res = "COOLDOWN"
  /\ H.last.retry < H.prev.retry

\* C6 as stated: every submission during the block that SPAM_WINDOW began
\* fails COOLDOWN and leaves the spam window counter as it was.
C6_Stated ==
  InBlock("SPAM_WINDOW") =>
    /\ H.last.res = "COOLDOWN"
    /\ SpamCount(spamState, "k1") = H.block.cnt

\* C6, amended: SPAM_WINDOW blocks the client for SPAM_BLOCK_MS (retry-after
\* 180); every submission during the block is rejected, with COOLDOWN unless
\* the rate limiter, which runs first, rejects it with RATE_LIMIT, and none
\* changes the spam window counter or the end of the block.
C6_Block ==
  /\ H.last.res = "SPAM_WINDOW" =>
       /\ H.last.retry = 180
       /\ spamState["k1"].blockedUntil = H.last.at + SPAM_BLOCK_MS
  /\ InBlock("SPAM_WINDOW") =>
       /\ H.last.res \in {"COOLDOWN", "RATE_LIMIT"}
       /\ SpamCount(spamState, "k1") = H.block.cnt
       /\ spamState["k1"].blockedUntil = H.block.until

\* C6, its case: a submission more than a rate window into the block failed
\* COOLDOWN.
C6_Witness ==
  /\ InBlock("SPAM_WINDOW")
  /\ H.last.res = "COOLDOWN"
  /\ H.last.at > H.block.at + RL_WINDOW_MS

\* C7: when a submission failed with a throttling error and retry-after r,
\* and the next submission of the client comes r seconds later or more, the
\* rate limiter and the spam guard do not reject it.
C7_RetryHonoured ==
  (H.prev.res \in Throttle /\ H.last.at - H.prev.at >= 1000 * H.prev.retry)
    => H.last.res \notin Throttle

\* C8 as stated: of two requests with the same cache key submitted less than
\* CACHE_TTL apart (as any two requests of one run are), overlapping or not,
\* only the first invokes generation.
C8_Stated ==
  \A a, b \in Slots :
    (a # b /\ Holding(a) /\ Holding(b) /\ req[a].ckey = req[b].ckey)
      => ~(req[a].gen /\ req[b].gen)

\* C8, amended: a request that passes governance is answered from the cache,
\* with cached = true and without any external call, exactly when an answer
\* for its cache key was stored less than CACHE_TTL before its submission, and
\* it returns the answer stored last; otherwise (none stored yet, as while an
\* earlier request with the key is still running, or the last one stored
\* CACHE_TTL ago or longer) it misses and, to answer, invokes generation.
C8_Cache ==
  \A r \in Slots :
    (Submitted(r) /\ req[r].acq) =>
      /\ req[r].cached = req[r].fresh
      /\ req[r].cached =>
           /\ req[r].reply = req[r].freshReply
           /\ ~req[r].gen
           /\ req[r].ext = 0
           /\ req[r].status = 200
      /\ (~req[r].cached /\ req[r].status = 200) => req[r].gen

\* C8, its case: the entry expired, one client's request generated and
\* stored a new answer, and a request of the other client returned that
\* answer from the cache.
C8_Witness ==
  \E a, b \in Slots :
    /\ req[a].key # req[b].key
    /\ req[b].gen /\ req[b].status = 200 /\ req[b].reply # WarmReply
    /\ req[a].cached /\ req[a].reply = req[b].reply

\* C9: a request rejected by governance (RATE_LIMIT, COOLDOWN, TOO_FAST,
\* SPAM_WINDOW or BUSY) makes no external call (corpus, secret, embedding,
\* generation), acquires nothing and leaves the response cache as it was, on
\* both paths.
C9_Rejected ==
  \A r \in Slots :
    (Submitted(r) /\ req[r].err \in GovErrors) =>
      /\ req[r].ext = 0
      /\ ~req[r].gen
      /\ ~req[r].touched
      /\ ~req[r].cached
      /\ ~req[r].acq

\* C9, its case: a request was rejected while the cache held an entry older
\* than CACHE_TTL, which the cleanup of an accepted request would delete.
C9_Witness ==
  \E r \in Slots :
    /\ Submitted(r) /\ req[r].err \in GovErrors
    /\ Has(cache, req[r].ckey)
    /\ now - cache[req[r].ckey].ts > CACHE_TTL

\* The events of w at the positions in I are all of the kinds in K.
AllOf(w, I, K) == \A i \in I : i \in 1..Len(w) => w[i].ev \in K

\* The stream contract on what was written so far: the stream is opened,
\* then come delta events (and, on a failure, the error marker), then at most
\* one [DONE], then the end of the stream and nothing more.
StreamWireOK(w) ==
  LET n == Len(w)
      dones == {i \in 1..n : w[i].ev = "done"}
  IN  /\ n > 0 /\ w[1] = Open
      /\ Cardinality(dones) <= 1
      /\ dones = {} => AllOf(w, 2..n, {"delta", "error"})
      /\ \A d \in dones :
           /\ AllOf(w, 2..(d - 1), {"delta", "error"})
           /\ n <= d + 1
           /\ AllOf(w, (d + 1)..n, {"end"})

\* C10: a streaming request that opens the event stream (cache hit,
\* generation, failure after the opening) writes delta events, then exactly
\* one terminal [DONE] event, and nothing is written to the response after
\* it, by handleChatStream or by the handler that called it.
C10_StreamWire ==
  \A r \in Slots :
    (req[r].mode = "stream" /\ req[r].acq) =>
      /\ StreamWireOK(req[r].wire)
      /\ req[r].pc = "done" =>
           \E i \in 1..Len(req[r].wire) : req[r].wire[i].ev = "done"

\* The positions of the events of kind e in w.
EventsOf(w, e) == {i \in 1..Len(w) : w[i].ev = e}

\* C11: when retrieval or generation fails after the event stream was opened,
\* with or without deltas emitted before, the stream carries the deltas, then
\* the error marker, then at once the terminal [DONE] event; and every opened
\* stream that has ended, failed or not, carries a terminal event.
C11_ErrorThenDone ==
  \A r \in Slots :
    (req[r].mode = "stream" /\ req[r].acq /\ req[r].pc = "done") =>
      /\ EventsOf(req[r].wire, "done") # {}
      /\ req[r].err = "SERVER_ERROR" =>
           \E i \in EventsOf(req[r].wire, "error") :
             /\ req[r].wire[1] = Open
             /\ \A j \in 2..(i - 1) : req[r].wire[j].ev = "delta"
             /\ i < Len(req[r].wire)
             /\ req[r].wire[i + 1] = Done
             /\ EventsOf(req[r].wire, "done") = {i + 1}
             /\ EventsOf(req[r].wire, "error") = {i}

\* C11, its case: generation failed in mid-stream after two deltas were
\* emitted.
C11_Witness ==
  \E r \in Slots :
    /\ req[r].mode = "stream"
    /\ req[r].pc = "done"
    /\ req[r].err = "SERVER_ERROR"
    /\ Cardinality(EventsOf(req[r].wire, "delta")) = 2

\* C12: for one generation output (the fragments the streaming path receives,
\* joined, are the complete answer the buffered path receives), the answer a
\* request ends with and writes to the cache is the same on both paths: the
\* streaming path's is the buffered path's BufferedAnswer of that output.
C12_SameAnswer ==
  [][\A r \in Slots :
       (req[r].pc # "done" /\ req'[r].pc = "done" /\ req'[r].gen
          /\ req'[r].status = 200)
       => /\ req'[r].reply = BufferedAnswer(req'[r].out)
          /\ Has(cache', req'[r].ckey)
          /\ cache'[req'[r].ckey] =
               [ts |-> now, reply |-> BufferedAnswer(req'[r].out)]]_vars

\* C12, its case: a buffered and a streaming request were given the same
\* output, one with white space at its end, and ended with the same answer.
C12_Witness ==
  \E a, b \in Slots :
    /\ req[a].mode = "buffered" /\ req[b].mode = "stream"
    /\ req[a].pc = "done" /\ req[b].pc = "done"
    /\ req[a].gen /\ req[b].gen
    /\ req[a].status = 200 /\ req[b].status = 200
    /\ req[a].out = req[b].out
    /\ Concat(req[a].out) # req[a].reply
    /\ req[a].reply = req[b].reply

\* The status the error taxonomy maps an outcome to.
MappedStatus(e) ==
  IF e = "" THEN 200
  ELSE IF e = "BUSY" THEN 409
  ELSE IF e \in Throttle THEN 429
  ELSE 500

\* C13: every submit with a question that the exported handler has served,
\* with or without response streaming, was answered by one response whose
\* status is the mapped one (200 success, 409 BUSY, 429 with a retry-after
\* of at least 1 for RATE_LIMIT, COOLDOWN, TOO_FAST and SPAM_WINDOW, 500
\* otherwise), and no failure left the handler as a rejection.
C13_OneMappedResponse ==
  \A r \in Slots :
    (req[r].pc = "done" /\ req[r].err # "NO_MESSAGE") =>
      /\ ~req[r].escaped
      /\ Cardinality(EventsOf(req[r].wire, "open")) = 1
      /\ Cardinality(EventsOf(req[r].wire, "end")) = 1
      /\ req[r].status = MappedStatus(req[r].err)
      /\ req[r].err \in Throttle => req[r].retry >= 1

\* C14: a submit with an empty question is answered with status 400 and
\* error NO_MESSAGE on the buffered and on the streaming path, and the step
\* that answers it leaves the rate state, the spam state, the in-flight
\* entries and the cache as they were.
C14_NoMessage ==
  [][\A r \in Slots :
       (req'[r] # req[r] /\ req'[r].err = "NO_MESSAGE") =>
         /\ req'[r].status = 400
         /\ EventsOf(req'[r].wire, "json") # {}
         /\ UNCHANGED <<rateState, spamState, inFlight, cache>>]_vars

\* What the three governance maps hold for key k (an absent entry is {}).
KeyState(rs, ss, inf, k) ==
  [rate |-> IF Has(rs, k) THEN {rs[k]} ELSE {},
   spam |-> IF Has(ss, k) THEN {ss[k]} ELSE {},
   busy |-> k \in inf]

\* C15: a step of a request with key k, whatever its outcome and whatever
\* other requests are suspended beside it, leaves the rate state, the spam
\* state and the in-flight membership of every other key as they were.
C15_OtherKeysUntouched ==
  [][\A r \in Slots :
       (req'[r] # req[r] \/ nsub' # nsub) =>
         \A k \in Keys :
           (KeyState(rateState', spamState', inFlight', k)
              # KeyState(rateState, spamState, inFlight, k))
           => \E x \in Slots :
                /\ req'[x].key = k
                /\ req'[x] # req[x] \/ req' = req]_vars

\* C15, its case: requests of both keys overlapped, the one of k1 has failed
\* and released its key while the one of k2 is still suspended and holds its
\* own, and both keys have state in all maps.
C15_Witness ==
  \E a, b \in Slots :
    /\ req[a].key = "k1" /\ req[a].pc = "done" /\ req[a].err = "SERVER_ERROR"
    /\ req[b].key = "k2" /\ Running(b)
    /\ inFlight = {"k2"}
    /\ Has(rateState, "k1") /\ Has(spamState, "k1")
    /\ Has(rateState, "k2") /\ Has(spamState, "k2")

\* C16: the embeddings of the chunks, and likewise those of the intent
\* prototypes, are computed at most once in a process: of several requests
\* that reach them before they are kept, one makes the embedding calls and
\* the others wait for its result, so no two requests are in the loop of
\* embedding calls at a time and none is once the result is kept.
C16_EmbedOnce ==
  /\ \A a, b \in Slots :
        (a # b /\ req[a].pc = req[b].pc) => req[a].pc \notin {"chunks", "intents"}
  /\ \A r \in Slots :
        /\ req[r].pc = "chunks" => ~cachedMenuEmbeddings.set
        /\ req[r].pc = "intents" => ~cachedIntentEmbeddings

\* An entry the map still holds although it has expired: the rate window
\* of k has elapsed; the spam window of k has elapsed and k is not blocked;
\* the answer of q is older than CACHE_TTL.
StaleRate(k) == Has(rateState, k) /\ now - rateState[k].windowStart > RL_WINDOW_MS
StaleSpam(k) ==
  /\ Has(spamState, k)
  /\ now - spamState[k].windowStart > SPAM_WINDOW_MS
  /\ now >= spamState[k].blockedUntil
StaleCache(q) == Has(cache, q) /\ now - cache[q].ts > CACHE_TTL

EvictedRate == \A k \in Keys : []<>(~StaleRate(k))
EvictedSpam == \A k \in Keys : []<>(~StaleSpam(k))
EvictedCache == \A q \in CacheKeys : []<>(~StaleCache(q))

\* No step takes a key out of rateState or spamState: an expired entry
\* stays however many requests follow, not only at the end of a bounded run.
KeysKept ==
  [][/\ DOMAIN rateState \subseteq DOMAIN rateState'
     /\ DOMAIN spamState \subseteq DOMAIN spamState']_vars

\* C17: none of the three maps keeps an expired entry for ever: while
\* requests are handled, an expired rate-state entry, an expired spam-state
\* entry and an expired cache entry are each removed by a later request.
C17_Evicted == EvictedRate /\ EvictedSpam /\ EvictedCache

\* C18: whatever the lines of a section text, a single line longer than the
\* cap included, no chunk chunkSection makes of it is longer than
\* MAX_EMBED_CHUNK_CHARS characters.
C18_ChunkCap ==
  (fcall.fn = "chunkSection" /\ fcall.done) =>
    \A i \in 1..Len(fcall.val) : Len(fcall.val[i]) <= MAX_EMBED_CHUNK_CHARS

\* C19: the chunks chunkSection makes of a section text, joined in the order
\* of their ids by line feeds, are the trimmed section text, character by
\* character.
C19_Rejoin ==
  (fcall.fn = "chunkSection" /\ fcall.done) =>
    JoinLines(fcall.val) = Trim(fcall.arg)

\* The ranking has been made; its query, corpus, scores and order.
Ranked == fcall.fn = "rank" /\ fcall.done
Q == fcall.arg.query
Corpus == fcall.arg.corpus
One == [num |-> 1, den |-> 1]
Zero == [num |-> 0, den |-> 1]

\* The place of chunk i in the ranking.
Place(i) == CHOOSE p \in 1..Len(Corpus) : fcall.val.order[p] = i

RECURSIVE Deltas(_)
Deltas(out) ==
  IF out = <<>> THEN <<>>
  ELSE IF Head(out) = <<>> THEN Deltas(Tail(out))
  ELSE <<Delta(Head(out))>> \o Deltas(Tail(out))

\* C21: a streamed generation that succeeds with the fragments f1..fn has
\* emitted one delta event for each fragment that is not empty, in order,
\* then one terminal event and nothing else, and the answer it stores and
\* ends with is f1..fn joined and trimmed of surrounding white space.
C21_StreamEvents ==
  [][\A r \in Slots :
       (req[r].pc = "streaming" /\ req'[r].pc = "done" /\ req'[r].status = 200)
       => /\ req'[r].wire = <<Open>> \o Deltas(req'[r].out) \o <<Done, End>>
          /\ req'[r].reply = Trim(Concat(req'[r].out))
          /\ cache'[req'[r].ckey].reply = Trim(Concat(req'[r].out))]_vars

\* C21, its case: a stream of three fragments, one of them empty and one of
\* white space, has ended with two delta events and the terminal event.
C21_Witness ==
  \E r \in Slots :
    /\ req[r].mode = "stream" /\ req[r].pc = "done" /\ req[r].status = 200
    /\ req[r].out = << <<" ">>, <<>>, <<"c">> >>
    /\ req[r].wire = <<Open, Delta(<<" ">>), Delta(<<"c">>), Done, End>>
    /\ req[r].reply = <<"c">>

\* The value the key of a request is to be derived from: the token when it
\* is a string of at least 8 characters, otherwise the address, or the fixed
\* value when there is none.
FromToken(id) == id.clientId.type = "string" /\ Len(id.clientId.val) >= 8
Deriving(id) ==
  IF FromToken(id) THEN id.clientId.val
  ELSE IF id.ip = <<>> THEN Unknown ELSE id.ip

\* The key ends with the deriving value.
EndsWith(key, v) ==
  Len(key) >= Len(v) /\ SubSeq(key, Len(key) - Len(v) + 1, Len(key)) = v

\* C22: the key of a request is made of its token when that is a string of
\* at least 8 characters and otherwise of its address (of the fixed value
\* "unknown" when it has none); a key made of a token is never equal to one
\* made of an address; and two requests have the same key exactly when both
\* keys are made of tokens, or both of addresses, and of the same value.
C22_ClientKey ==
  (fcall.fn = "getClientKey" /\ fcall.done) =>
    LET a == fcall.arg[1]
        b == fcall.arg[2]
    IN  /\ EndsWith(fcall.val[1], Deriving(a))
        /\ Len(fcall.val[1]) > Len(Deriving(a))
        /\ FromToken(a) # FromToken(b) => fcall.val[1] # fcall.val[2]
        /\ fcall.val[1] = fcall.val[2]
             <=> (FromToken(a) = FromToken(b) /\ Deriving(a) = Deriving(b))

\* C22, its case: one request has a token of exactly 8 characters, the other
\* a token of 7 and the address whose text is the first one's token; their
\* keys differ.
C22_Witness ==
  /\ fcall.fn = "getClientKey" /\ fcall.done
  /\ fcall.arg[1].clientId = [type |-> "string", val |-> Addr8]
  /\ fcall.arg[2].clientId = [type |-> "string", val |-> Unknown]
  /\ fcall.arg[2].ip = Addr8
  /\ fcall.val = <<CidPrefix \o Addr8, IpPrefix \o Addr8>>

\* C23: every call of the rate limiter leaves the stored count of its key one
\* higher than it was, counted from zero when the key had no state or its
\* window had elapsed, and this holds for the calls that fail with
\* RATE_LIMIT too.
C23_RateCounts ==
  [][nsub' # nsub =>
       /\ Has(rateState', "k1")
       /\ rateState'["k1"].count =
            1 + (IF Has(rateState, "k1")
                    /\ now - rateState["k1"].windowStart <= RL_WINDOW_MS
                 THEN rateState["k1"].count ELSE 0)]_vars

\* C23, its case: a call failed with RATE_LIMIT after one that had failed
\* already, and both were counted.
C23_Witness ==
  /\ req[1].err = "RATE_LIMIT"
  /\ Has(rateState, "k1")
  /\ rateState["k1"].count = RL_LIMIT + 2

\* C24: every stored rate state has resetAt = windowStart + RL_WINDOW_MS, and
\* the retry-after of a RATE_LIMIT failure at time t is
\* max(1, ceil((resetAt - t) / 1000)), a number from 1 to 60.
C24_RetryAfter ==
  /\ \A k \in DOMAIN rateState :
        rateState[k].resetAt = rateState[k].windowStart + 60000
  /\ req[1].err = "RATE_LIMIT" =>
        /\ req[1].retry = Max(1, Ceil(rateState["k1"].resetAt - req[1].at, 1000))
        /\ req[1].retry \in 1..60

\* C24, its case: a RATE_LIMIT failure in the millisecond the window ends,
\* where the seconds left are 0 and the retry-after is 1.
C24_Witness ==
  /\ req[1].err = "RATE_LIMIT"
  /\ req[1].at = rateState["k1"].resetAt
  /\ req[1].retry = 1

\* The spam state of k1 blocks a call at the present time.
Blocked ==
  /\ Has(spamState, "k1")
  /\ spamState["k1"].blockedUntil # 0
  /\ now < spamState["k1"].blockedUntil

\* C25: a spam-guard call that fails with COOLDOWN leaves the spam state of
\* its key as it was, windowStart, count, blockedUntil and lastAt; while
\* blockedUntil is in the future no call moves it; and the retry-after of
\* COOLDOWN is max(1, ceil((blockedUntil - now) / 1000)).
C25_CooldownFrame ==
  [][/\ (nsub' # nsub /\ req'[1].err = "COOLDOWN") =>
          /\ Blocked
          /\ spamState' = spamState
          /\ req'[1].retry =
               Max(1, Ceil(spamState["k1"].blockedUntil - now, 1000))
     /\ Blocked => spamState'["k1"].blockedUntil = spamState["k1"].blockedUntil
    ]_vars

\* C25, its case: a call 650 ms into a block of 3000 ms failed with COOLDOWN
\* and a retry-after of 3, and the block still ends when it did.
C25_Witness ==
  /\ req[1].err = "COOLDOWN"
  /\ req[1].retry = 3
  /\ Has(spamState, "k1")
  /\ spamState["k1"].blockedUntil = req[1].at + 2350

\* A call now is closer than MIN_INTERVAL_MS to the last accepted one of k1
\* and would exceed the cap of the spam window, which has not elapsed.
CloseAndOverCap ==
  /\ Has(spamState, "k1")
  /\ ~Blocked
  /\ spamState["k1"].lastAt # 0
  /\ now - spamState["k1"].lastAt < 650
  /\ now - spamState["k1"].windowStart <= SPAM_WINDOW_MS
  /\ spamState["k1"].count + 1 > SPAM_LIMIT

\* C26: the spam guard applies the cooldown, then the minimum interval, then
\* the window count: a call that reaches it when it is both closer than
\* 650 ms to the last accepted one and over the window cap fails with
\* TOO_FAST, not SPAM_WINDOW, sets blockedUntil = now + 3000 and leaves the
\* window, its counter and lastAt as they were.
C26_TooFastFirst ==
  [][(nsub' # nsub /\ CloseAndOverCap /\ req'[1].err # "RATE_LIMIT") =>
       /\ req'[1].err = "TOO_FAST"
       /\ req'[1].retry = 3
       /\ spamState'["k1"] =
            [spamState["k1"] EXCEPT !.blockedUntil = now + 3000]]_vars

\* C26, its case: with 30 requests counted in the window, a call in the
\* millisecond of the last one failed with TOO_FAST and the count is still 30.
C26_Witness ==
  /\ req[1].err = "TOO_FAST"
  /\ Has(spamState, "k1")
  /\ spamState["k1"].count = SPAM_LIMIT
  /\ spamState["k1"].lastAt = req[1].at
  /\ spamState["k1"].blockedUntil = req[1].at + 3000

\* This step's call of the rate limiter has taken one slot of the window of
\* k1; its call of the spam guard has taken one slot of the spam window and
\* set lastAt.
RateSlotTaken ==
  /\ Has(rateState', "k1")
  /\ rateState'["k1"].count =
       1 + (IF Has(rateState, "k1")
               /\ now - rateState["k1"].windowStart <= RL_WINDOW_MS
            THEN rateState["k1"].count ELSE 0)
SpamSlotTaken ==
  /\ Has(spamState', "k1")
  /\ spamState'["k1"].lastAt = now
  /\ spamState'["k1"].count =
       1 + (IF Has(spamState, "k1")
               /\ now - spamState["k1"].windowStart <= SPAM_WINDOW_MS
            THEN spamState["k1"].count ELSE 0)

\* C27: the governance stages run in the order rate limiter, spam guard,
\* in-flight guard, and a request changes what the stages it reached keep:
\* RATE_LIMIT changes the rate state only; a spam failure has taken a rate
\* slot and leaves the in-flight entries alone; BUSY has taken a rate slot
\* and a spam slot, set lastAt, and neither added nor removed an in-flight
\* entry, so the running request still holds its own.
C27_Stages ==
  [][\A r \in Slots :
       (nsub' # nsub /\ req'[r] # req[r]) =>
         /\ RateSlotTaken
         /\ rateState'["k1"].count > RL_LIMIT <=> req'[r].err = "RATE_LIMIT"
         /\ req'[r].err = "RATE_LIMIT" =>
              spamState' = spamState /\ inFlight' = inFlight
         /\ req'[r].err \in {"COOLDOWN", "TOO_FAST", "SPAM_WINDOW"} =>
              inFlight' = inFlight
         /\ req'[r].err = "BUSY" =>
              /\ SpamSlotTaken
              /\ inFlight' = inFlight
              /\ "k1" \in inFlight'
              /\ \E x \in Slots : x # r /\ Holding(x) /\ req'[x] = req[x]
         /\ req'[r].err = "" => SpamSlotTaken /\ "k1" \notin inFlight
    ]_vars

\* C27, its case: while a request of k1 runs, a second one was rejected BUSY
\* as the second call of its rate window and of its spam window; lastAt is
\* the time of the rejected call and the first still holds its entry.
C27_Witness ==
  \E a, b \in Slots :
    /\ a # b
    /\ Running(a) /\ Holding(a)
    /\ req[b].err = "BUSY" /\ req[b].status = 409
    /\ rateState["k1"].count = 2
    /\ spamState["k1"].count = 2
    /\ spamState["k1"].lastAt = now
    /\ spamState["k1"].lastAt = spamState["k1"].windowStart + MIN_INTERVAL_MS
    /\ inFlight = {"k1"}

\* C28: the rate check, the spam check and the in-flight acquisition of a
\* request are one step without a suspension point: in every state a request
\* that has passed its checks and not yet released has its key recorded in
\* inFlight, the recorded keys are exactly those of such requests, and no
\* two such requests have the same key, so that no other request's
\* governance or release ran between the checks and the recording.
C28_AtomicGovernance ==
  /\ \A r \in Slots :
       (req[r].pc # "idle" /\ req[r].err = "" /\ req[r].over = FALSE
        /\ req[r].rel = 0 /\ req[r].status # 400)
         => Holding(r) /\ req[r].key \in inFlight
  /\ inFlight = {req[r].key : r \in {x \in Slots : Holding(x)}}
  /\ \A a, b \in Slots :
       (a # b /\ Holding(a) /\ Holding(b)) => req[a].key # req[b].key

\* C28, its case: a request of k1 is suspended in its generation while a
\* later request of k1, whose three checks ran meanwhile, was rejected BUSY.
C28_Witness ==
  \E a, b \in Slots :
    /\ a # b
    /\ req[a].pc = "generate" /\ Holding(a)
    /\ req[b].err = "BUSY" /\ req[b].key = req[a].key
    /\ spamState[req[a].key].lastAt
         >= spamState[req[a].key].windowStart + MIN_INTERVAL_MS
    /\ req[a].key \in inFlight

\* The two cached lists are both undefined or both assigned.
BothOrNeither == cachedMenuChunks.set = cachedMenuEmbeddings.set

\* The cached lists have one vector per chunk, vector i being that of chunk i.
Aligned ==
  cachedMenuEmbeddings.set =>
    /\ Len(cachedMenuEmbeddings.list) = Len(cachedMenuChunks.list)
    /\ \A i \in 1 .. Len(cachedMenuChunks.list) :
         cachedMenuEmbeddings.list[i].of = cachedMenuChunks.list[i]

\* No step changes a cached list that has been assigned.
Immutable ==
  [][cachedMenuChunks.set =>
       /\ cachedMenuChunks' = cachedMenuChunks
       /\ cachedMenuEmbeddings' = cachedMenuEmbeddings]_vars

\* The part of C29 about the states: with requests racing through their
\* first use and embedding calls failing, the lists are both undefined or
\* both assigned, of one length, vector i computed from chunk i.
ListsAligned == BothOrNeither /\ Aligned

\* C29: in every reachable state, under concurrent first use and under
\* embedding failures during the warm-up, the cached chunk list and the
\* cached embedding list are both absent or both present, of equal length,
\* embedding i computed from chunk i; once present they never change.
C29_CachedLists == [](BothOrNeither /\ Aligned) /\ Immutable

\* The sections are in the order of their positions in the corpus and no
\* character of the corpus belongs to two of them.
Apart(sections) ==
  \A i, j \in 1 .. Len(sections) :
    i < j => sections[i].from + Len(sections[i].text) <= sections[j].from

\* Every section is the text of the corpus at its position.
InPlace(t, sections) ==
  \A i \in 1 .. Len(sections) :
    sections[i].text =
      Slice(t, sections[i].from, sections[i].from + Len(sections[i].text))

\* The part of C30 that holds: the intro and the marker sections are ordered
\* and pairwise apart, and so is the whole result of a text without footer.
MarkerSectionsApart ==
  (fcall.fn = "splitSections" /\ fcall.done) =>
    /\ InPlace(fcall.arg, fcall.val)
    /\ Apart(SelectSeq(fcall.val, LAMBDA sec : sec.key # "footer"))
    /\ indexOfRegex(fcall.arg, RX_FOOTER) < 0 => Apart(fcall.val)

\* C30: for every corpus text the sections splitSections produces are
\* ordered by position and pairwise non-overlapping: no character of the
\* corpus belongs to two sections, the intro, the marker sections and the
\* footer section included.
C30_SectionsApart ==
  (fcall.fn = "splitSections" /\ fcall.done) => Apart(fcall.val)

\* splitSections has been called; its text and its sections.
Sectioned == fcall.fn = "splitSections" /\ fcall.done

\* sec is the intro made of the first MAX_MENU_CHUNK characters of the
\* trimmed text t.
CappedIntro(sec, t) ==
  /\ sec.key = "intro"
  /\ Len(sec.text) = (IF Len(Trim(t)) < MAX_MENU_CHUNK
                      THEN Len(Trim(t)) ELSE MAX_MENU_CHUNK)
  /\ \A i \in 1 .. Len(sec.text) : sec.text[i] = Trim(t)[i]

Chunked ==
  /\ fcall.fn = "chunkSection" /\ fcall.done
  /\ fcall.arg # <<>> /\ Trim(fcall.arg) = fcall.arg

\* The lines of the chunks, chunk after chunk.
RECURSIVE ChunkLines(_)
ChunkLines(chunks) ==
  IF chunks = <<>> THEN <<>>
  ELSE Split(Head(chunks)) \o ChunkLines(Tail(chunks))

\* The characters of s that are not white space.
NonSpace(s) == SelectSeq(s, LAMBDA c : ~IsSpace(c))

\* What holds of the packing: the chunks hold the characters of the section
\* other than white space, once and in order; a chunk over the cap is one
\* line; chunk i is the trimmed buf of push i, and a buf pushed before the
\* last line could not take the line the next buf starts with, and its
\* separator, without exceeding the cap.
PackedUpToTrim ==
  Chunked =>
    LET bufs == chunkBufs(Split(fcall.arg), <<>>, <<>>)
    IN  /\ NonSpace(JoinLines(fcall.val)) = NonSpace(fcall.arg)
        /\ Len(ChunkLines(fcall.val)) <= Len(Split(fcall.arg))
        /\ \A i \in 1 .. Len(fcall.val) :
             Len(fcall.val[i]) > MAX_EMBED_CHUNK_CHARS =>
               Len(Split(fcall.val[i])) = 1
        /\ Len(bufs) = Len(fcall.val)
        /\ \A i \in 1 .. Len(bufs) : fcall.val[i] = Trim(bufs[i])
        /\ \A i \in 1 .. Len(bufs) - 1 :
             Len(bufs[i]) + 1 + Len(Split(bufs[i + 1])[1])
               > MAX_EMBED_CHUNK_CHARS

\* C32: chunkSection packs greedily without splitting a line: every line
\* of the section lies wholly inside exactly one chunk and the lines keep
\* their order, so the lines of the chunks, in the order of the chunk ids
\* sectionKey:1, sectionKey:2, ..., are the lines of the section.
C32_Packed == Chunked => ChunkLines(fcall.val) = Split(fcall.arg)

\* The keys of the sections of a corpus are different, so that the chunk
\* ids sectionKey:ordinal are unique in the index.
SectionKeysDistinct ==
  Sectioned =>
    \A i, j \in 1 .. Len(fcall.val) :
      fcall.val[i].key = fcall.val[j].key => i = j

\* The selection has been made: from which chunks, and their similarities.
Selecting == fcall.fn = "select" /\ fcall.done
Sim(i) == cosineSimilarity(fcall.arg.query, fcall.arg.corpus[i])

\* Chunk i goes before chunk j: higher similarity, or the same and earlier.
Before(i, j) == Greater(Sim(i), Sim(j)) \/ (Same(Sim(i), Sim(j)) /\ i < j)

\* C33: whatever the intent, every chunk is scored, and the K chunks of
\* highest cosine similarity are selected, all chunks if there are fewer
\* than K, in falling similarity, equal scores in the order of the chunk
\* indices; K is 7 for the intents cheapest and comparison and 4 otherwise,
\* so the selection of a broad intent contains that of a narrow intent on
\* the same query.
C33_TopK ==
  Selecting =>
    LET n == Len(fcall.arg.corpus)
        K == IF fcall.arg.intent \in {"cheapest", "comparison"} THEN 7 ELSE 4
        sel == fcall.val
        In(i) == \E p \in 1..Len(sel) : sel[p] = i
    IN  /\ Len(sel) = (IF n < K THEN n ELSE K)
        /\ \A p \in 1..Len(sel) : sel[p] \in 1..n
        /\ \A p, q \in 1..Len(sel) : p < q => Before(sel[p], sel[q])
        /\ \A i, j \in 1..n : (In(i) /\ ~In(j)) => Before(i, j)
        /\ \A b \in {"cheapest", "comparison"},
              a \in {"recommendation", "general"} :
             LET broad == Selected(fcall.arg.query, fcall.arg.corpus, b)
                 narrow == Selected(fcall.arg.query, fcall.arg.corpus, a)
             IN  {narrow[p] : p \in 1..Len(narrow)}
                   \subseteq {broad[p] : p \in 1..Len(broad)}

\* C33, its case: of eight chunks, the first five near the query and the
\* last three equal to it, the intent cheapest selected seven: the three
\* equal ones, then the first four of the others.
C33_Witness ==
  /\ Selecting
  /\ fcall.arg.intent = "cheapest"
  /\ fcall.arg.corpus = [i \in 1..8 |-> IF i <= 5 THEN <<4, 3>> ELSE <<3, 4>>]
  /\ fcall.val = <<6, 7, 8, 1, 2, 3, 4>>

\* The context has been built: from which chunks, which were selected.
Built == fcall.fn = "menuContext" /\ fcall.done
Chunks == fcall.arg.chunks
Sel == Selected(fcall.arg.query, fcall.arg.embeddings, fcall.arg.intent)

\* The chunk of id.
ById(id) == Chunks[CHOOSE i \in 1..Len(Chunks) : Chunks[i].id = id]

\* The text the blocks of ids make: ### KEY (id), a line feed, the text of
\* the chunk; an empty line between two blocks.
RECURSIVE TextOf(_)
TextOf(ids) ==
  IF ids = <<>> THEN <<>>
  ELSE <<"#", "#", "#", " ">> \o toUpperCase(ById(Head(ids)).key)
         \o <<" ", "(">> \o Head(ids) \o <<")", "\n">> \o ById(Head(ids)).text
         \o (IF Len(ids) > 1 THEN <<"\n", "\n">> ELSE <<>>)
         \o TextOf(Tail(ids))

\* C34: the context holds, in this order, the first intro chunk if there is
\* one, the first footer chunk if there is one, then the top-K chunks in
\* falling similarity, every chunk id at most once (at most K + 2 blocks),
\* each block headed by the section key in upper case and the chunk id; the
\* whole string is cut at 15000 characters.
C34_Context ==
  Built =>
    LET ids == fcall.val.ids
        intros == {i \in 1..Len(Chunks) : Chunks[i].key = KeyIntro}
        footers == {i \in 1..Len(Chunks) : Chunks[i].key = KeyFooter}
        head == (IF intros = {} THEN 0 ELSE 1) + (IF footers = {} THEN 0 ELSE 1)
        rest == SubSeq(ids, head + 1, Len(ids))
        selIds == [p \in 1..Len(Sel) |-> Chunks[Sel[p]].id]
        text == TextOf(ids)
    IN  /\ intros # {} =>
             ids[1] = Chunks[CHOOSE i \in intros : \A j \in intros : i <= j].id
        /\ footers # {} =>
             ids[IF intros = {} THEN 1 ELSE 2] =
               Chunks[CHOOSE i \in footers : \A j \in footers : i <= j].id
        /\ \A p, q \in 1..Len(ids) : ids[p] = ids[q] => p = q
        /\ Len(ids) <= Len(Sel) + 2
        /\ rest = SelectSeq(selIds, LAMBDA id :
                     \A p \in 1..head : ids[p] # id)
        /\ fcall.val.menuContext =
             SubSeq(text, 1, IF Len(text) < 15000 THEN Len(text) ELSE 15000)

\* C34, its case: six chunks, intro and footer among them and the intent
\* general; the four chunks selected are the intro and three of the section,
\* the context is made of intro, footer and those three, and with the long
\* chunk among them it is cut at 15000 characters.
C34_Witness ==
  /\ Built
  /\ fcall.arg.intent = "general"
  /\ Len(Chunks) = 6
  /\ Len(fcall.val.ids) = 5
  /\ fcall.val.ids[1] = KeyIntro \o <<":", "1">>
  /\ fcall.val.ids[2] = KeyFooter \o <<":", "1">>
  /\ \E p \in 1..Len(Sel) : Chunks[Sel[p]].key = KeyIntro
  /\ Len(fcall.val.menuContext) = MAX_MENU_CHUNK
  /\ Len(TextOf(fcall.val.ids)) > MAX_MENU_CHUNK

\* detectIntent has returned; the similarity of prototype i to the query.
Detected == fcall.fn = "detectIntent" /\ fcall.done
ProtoSim(i) == cosineSimilarity(fcall.arg.query, fcall.arg.embeddings[i])

\* Prototype i has the maximum similarity and is the first that has it.
FirstMax(i) ==
  /\ \A j \in 1..Len(IntentKeys) : ~Greater(ProtoSim(j), ProtoSim(i))
  /\ \A j \in 1..i - 1 : Greater(ProtoSim(i), ProtoSim(j))

\* C35 as stated: for every query vector and all prototype vectors,
\* detectIntent returns the label of a prototype of maximum cosine
\* similarity to the query, and of several with the maximum the first in
\* the order recommendation, cheapest, comparison, general.
C35_Stated ==
  Detected =>
    \E i \in 1..Len(IntentKeys) : FirstMax(i) /\ fcall.val.key = IntentKeys[i]

\* C35, amended: detectIntent returns the label of a prototype of maximum
\* cosine similarity to the query; if some prototype has a similarity above
\* -1 it is the first of those with the maximum, with that similarity as
\* score; if every prototype has similarity -1 it is general, the label
\* the search starts from, whatever the order.
C35_FirstMax ==
  Detected =>
    /\ \E i \in 1..Len(IntentKeys) :
         /\ fcall.val.key = IntentKeys[i]
         /\ Same(fcall.val.score, ProtoSim(i))
         /\ \A j \in 1..Len(IntentKeys) : ~Greater(ProtoSim(j), ProtoSim(i))
    /\ IF \E i \in 1..Len(IntentKeys) :
            Greater(ProtoSim(i), [num |-> -1, den |-> 1])
       THEN \E i \in 1..Len(IntentKeys) :
              FirstMax(i) /\ fcall.val.key = IntentKeys[i]
       ELSE fcall.val.key = "general"

\* C35, its case: cheapest and comparison share the maximum, above
\* recommendation and general; cheapest, the first of the two, is returned.
C35_Witness ==
  /\ Detected
  /\ fcall.arg.query = <<3, 4>>
  /\ fcall.arg.embeddings = << <<4, 3>>, <<6, 8>>, <<3, 4>>, <<0, 0>> >>
  /\ fcall.val.key = "cheapest"

\* The keys of two requests have been made.
Keyed == fcall.fn = "makeCacheKey" /\ fcall.done
ReqA == fcall.arg[1]
ReqB == fcall.arg[2]

\* The category of rq as normalized, and its last four turns.
Normal(rq) == IF rq.category \in VALID_CATEGORIES THEN rq.category ELSE CategoryAuto
Recent(rq) ==
  [i \in 1..(IF Len(rq.history) < 4 THEN Len(rq.history) ELSE 4) |->
     rq.history[Len(rq.history) - (IF Len(rq.history) < 4
                                   THEN Len(rq.history) ELSE 4) + i]]

\* The first n characters of str.
Prefix(str, n) == [i \in 1..(IF Len(str) < n THEN Len(str) ELSE n) |-> str[i]]

\* What of the question and the recent turns of rq enters its key: 600
\* characters of the question, role and 140 characters of every turn.
Signature(rq) ==
  [message |-> Prefix(rq.message, 600),
   turns |-> [i \in 1..Len(Recent(rq)) |->
                [role |-> Recent(rq)[i].role,
                 content |-> Prefix(Recent(rq)[i].content, 140)]]]

\* No text of rq holds a character the key uses as separator.
Plain(rq) ==
  LET plain(str) == \A i \in 1..Len(str) : str[i] \notin {":", "|"}
  IN  /\ plain(rq.message)
      /\ \A i \in 1..Len(rq.history) :
           plain(rq.history[i].role) /\ plain(rq.history[i].content)

\* C36 as stated: two requests have the same cache key exactly if they have
\* the same normalized category, the same question text and the same recent
\* turns; two that differ in any of these never share a key.
C36_Stated ==
  Keyed =>
    (fcall.val[1] = fcall.val[2]
       <=> /\ Normal(ReqA) = Normal(ReqB)
           /\ ReqA.message = ReqB.message
           /\ Recent(ReqA) = Recent(ReqB))

\* C36, amended: the cache key is a function of the normalized category,
\* the first 600 characters of the question and the last four turns, of
\* each its role and the first 140 characters of its content: requests that
\* agree in these have the same key; requests with the same key have the
\* same normalized category and, if their texts hold no ':' and no '|',
\* agree in all of these.
C36_Key ==
  Keyed =>
    /\ (Normal(ReqA) = Normal(ReqB) /\ Signature(ReqA) = Signature(ReqB))
         => fcall.val[1] = fcall.val[2]
    /\ fcall.val[1] = fcall.val[2] =>
         /\ Normal(ReqA) = Normal(ReqB)
         /\ (Plain(ReqA) /\ Plain(ReqB)) => Signature(ReqA) = Signature(ReqB)

\* C36, its case: an unknown category and none, two questions that differ
\* after their first 600 characters, five turns and their last four: the
\* keys are the same.
C36_Witness ==
  /\ Keyed
  /\ ReqA.category # ReqB.category
  /\ ReqA.message # ReqB.message
  /\ ReqA.history # ReqB.history
  /\ Len(ReqA.history) = 5
  /\ fcall.val[1] = fcall.val[2]

\* The spam entry of k1 before and after a call of the spam guard, and what
\* the call threw.
SpamCalled == fcall' # fcall
SpamOld ==
  IF Has(spamState, "k1") THEN spamState["k1"]
  ELSE [windowStart |-> now, count |-> 0, blockedUntil |-> 0, lastAt |-> 0]
SpamNew == spamState'["k1"]
SpamErr == fcall'.val.err

\* C37: the count of the spam window starts anew only at a request that
\* arrives more than 5 minutes after the start of the window, not when a
\* block starts or expires.  In one window the first 30 counted requests
\* pass and the 31st fails SPAM_WINDOW with blockedUntil = now + 180 s;
\* the first request after that block has expired, if still in the window,
\* is counted again, fails SPAM_WINDOW again and starts a new block of
\* 180 s.
C37_WindowCount ==
  [][SpamCalled =>
       /\ (SpamNew.count <= SpamOld.count \/ SpamNew.windowStart # SpamOld.windowStart)
            => /\ SpamErr \in {"COOLDOWN", "TOO_FAST"}
                  \/ now - SpamOld.windowStart > 5 * 60 * 1000
               /\ SpamErr \in {"COOLDOWN", "TOO_FAST"} =>
                    /\ SpamNew.count = SpamOld.count
                    /\ SpamNew.windowStart = SpamOld.windowStart
               /\ SpamErr \notin {"COOLDOWN", "TOO_FAST"} =>
                    SpamNew.count = 1 /\ SpamNew.windowStart = now
       /\ (SpamErr \notin {"COOLDOWN", "TOO_FAST"}
            /\ now - SpamOld.windowStart <= 5 * 60 * 1000)
            => /\ SpamNew.count = SpamOld.count + 1
               /\ SpamNew.count <= 30 => SpamErr = ""
               /\ SpamNew.count > 30 =>
                    /\ SpamErr = "SPAM_WINDOW"
                    /\ SpamNew.blockedUntil = now + 180 * 1000
                    /\ fcall'.val.retry = 180
       /\ (SpamOld.count > 30 /\ now >= SpamOld.blockedUntil
            /\ now - SpamOld.windowStart <= 5 * 60 * 1000)
            => /\ SpamErr = "SPAM_WINDOW"
               /\ SpamNew.count = SpamOld.count + 1
               /\ SpamNew.blockedUntil = now + 180 * 1000
    ]_vars

\* C37, its case: 30 requests passed, the 31st started a block, and the
\* request made when that block had expired, in the same window, was the
\* 32nd of the window and started a new block.
C37_Witness ==
  /\ fcall.fn = "applySpamGuardOrThrow" /\ fcall.done
  /\ fcall.val.err = "SPAM_WINDOW"
  /\ fcall.arg = now
  /\ spamState["k1"].count = 32
  /\ spamState["k1"].windowStart = StartTime
  /\ now = StartTime + 30 * MIN_INTERVAL_MS + SPAM_BLOCK_MS
  /\ spamState["k1"].blockedUntil = now + SPAM_BLOCK_MS

\* C38: no client is locked out for good.  In every reachable state, for every
\* client key none of whose requests is running: a submission of the key that
\* comes after the key stayed away for the larger of the spam window and what
\* is left of its block passes the rate limiter, the spam guard and the
\* in-flight guard, and so does one that comes a millisecond or a minimum
\* interval later than that.
C38_NoLockout ==
  \A k \in Keys :
    ~Outstanding(k) =>
      \A later \in {0, 1, MIN_INTERVAL_MS} :
        Governance(rateState, spamState, inFlight, k,
                   now + LockoutWait(k) + later).err = ""

\* C38, its case: the 31st request of k1 in a spam window was blocked, k1
\* stayed away for the stated time, and its submission then passed the three
\* guards as the first of a new window.
C38_Witness ==
  /\ Has(spamState, "k1")
  /\ spamState["k1"].blockedUntil > GovLastAt("spam") + SPAM_BLOCK_MS
  /\ spamState["k1"].lastAt = now
  /\ spamState["k1"].count = 1
  /\ now >= spamState["k1"].blockedUntil
  /\ "k1" \in inFlight
  /\ \E r \in Slots : Holding(r) /\ req[r].key = "k1"

\* Slot r holds a request whose external call failed.
Failed(r) == req[r].pc = "done" /\ req[r].err = "SERVER_ERROR"

\* C39: a request that fails at the corpus fetch, the secret, an embedding
\* call, retrieval or generation (buffered, or streaming before the last
\* fragment was consumed) writes nothing to the response cache: every entry of
\* the cache is the answer of a request that ended well, and while no request
\* with the cache key of a failed one has ended well, a request with that key
\* that passes governance misses the cache and goes on to the external calls
\* (if it has ended well, it invoked generation).  A failure in the middle of
\* the embedding calls leaves no index: the cached lists are both absent, or
\* both present with one vector for every chunk of the corpus.
C39_FailureCachesNothing ==
  /\ \A q \in DOMAIN cache : Has(stored, q) /\ cache[q] = stored[q]
  /\ \A a, b \in Slots :
       (Failed(a) /\ Submitted(b) /\ req[b].acq
          /\ req[b].ckey = req[a].ckey /\ ~Has(stored, req[a].ckey))
         => /\ ~req[b].cached
            /\ (req[b].pc = "done" /\ req[b].err = "") => req[b].gen
  /\ cachedMenuChunks.set = cachedMenuEmbeddings.set
  /\ ~cachedMenuChunks.set =>
       cachedMenuChunks.list = <<>> /\ cachedMenuEmbeddings.list = <<>>
  /\ cachedMenuChunks.set =>
       /\ cachedMenuChunks.list = MenuChunkList
       /\ Len(cachedMenuEmbeddings.list) = Len(MenuChunkList)

\* C39, its case: a streaming request failed after fragments of its answer
\* were consumed, nothing is cached for its question, and the next request
\* with the same question has invoked generation.
C39_Witness ==
  \E a, b \in Slots :
    /\ Failed(a) /\ req[a].mode = "stream" /\ req[a].full # <<>>
    /\ Holding(b) /\ req[b].ckey = req[a].ckey /\ req[b].gen
    /\ ~Has(cache, req[a].ckey)

\* The reader has read a stream.
Read == fcall.fn = "fetchReplyStream" /\ fcall.done

\* The fragments of the events before the first [DONE] of a wire, in order.
RECURSIVE SentBeforeDone(_)
SentBeforeDone(w) ==
  IF w = <<>> \/ Head(w).ev = "done" THEN <<>>
  ELSE (IF Head(w).ev \in {"delta", "hit"} THEN Head(w).data ELSE <<>>)
         \o SentBeforeDone(Tail(w))

\* Every read ends where a line ends.
WholeLines ==
  \A c \in fcall.arg.cuts : WireBytes(fcall.arg.wire)[c] = "\n"

\* The reader returns the fragments before [DONE], trimmed.
ReadsAll ==
  /\ ~fcall.val.thrown
  /\ fcall.val.text = Trim(SentBeforeDone(fcall.arg.wire))

\* Reads that end where lines end are read as sent.
WholeLinesReadAll == (Read /\ WholeLines) => ReadsAll

\* C40: the widget's stream reader returns the concatenation of the delta
\* fragments sent before the terminal [DONE] event, trimmed, whatever way the
\* bytes of the events are cut into network reads, a cut in the middle of an
\* event line included, and ignores what comes after the terminal event.
C40_Reader == Read => ReadsAll

\* JSON.parse never throws in the reader.
NeverThrown == Read => ~fcall.val.thrown

=============================================================================
